---- MODULE Spec2Model ----
(***************************************************************************)
(* State-machine model of the drata-agent sync orchestration, registration *)
(* handshake and persistent state store.                                   *)
(*                                                                         *)
(* Two implementations live in the repository: the Go CLI (cli/...: the    *)
(* one-shot commands runSync, runRegister, runUnregister and the daemon    *)
(* whose goroutines call performSync on one shared DataStore) and the      *)
(* TypeScript CLI (src/cli/...: configure, sync, disconnect over           *)
(* CliConfigHelper).  They keep their state in different files, so a host  *)
(* is modelled as running one of them (live: the processes of the host).   *)
(*                                                                         *)
(* A run is a sequence of steps, one per store call or API call, so that   *)
(* runs of different processes can interleave where the code releases the  *)
(* store's lock.  trace lists what a run has done so far; result is what   *)
(* the run that has just returned reported to its caller.  On a host whose *)
(* runs do not overlap (overlap = FALSE) a run starts when no other is in  *)
(* progress and the commands are used before the daemon is started.        *)
(*                                                                         *)
(* Time is a wall clock that never goes back and that the backend shares.  *)
(* One clock unit is ClockStep minutes.                                    *)
(***************************************************************************)
EXTENDS Integers, Sequences, FiniteSets, TLC

VARIABLES live, overlap, cfg, now, disk, mem, faults, daemonUp, proc, tsConfig, result,
          stopping, call, sched, snap

vars == <<live, overlap, cfg, now, disk, mem, faults, daemonUp, proc, tsConfig, result,
          stopping, call, sched, snap>>

(* the daemon's shutdown flag, and the state of the component-level
   specifications (store calls, scheduler, snapshot collection) *)
Aux == <<stopping, call, sched, snap>>

---------------------------------------------------------------------------
(* Bounds of the model *)

MaxNow == 2

(* os.WriteFile fails at most MaxFaults times in a behaviour *)
MaxFaults == 1

ClockStep == 30

(* Program constants *)

MinutesPerHour == 60

(* The throttle configurations (config.Config, set with "config set") a
   behaviour may start with; 15 minutes is DefaultConfig's
   MinMinutesBetweenSyncs, and one hour is a MinHoursSinceLastSync that the
   clock of the model can exceed. *)
MinMinutesChoices == {15}

MinHoursChoices == {1}

Regions == {"NA", "EU"}

UUIDs == {"u1", "u2"}

Version == "3.9.0-cli"

---------------------------------------------------------------------------
(* datastore.DataStore: the document.  A timestamp string is <<>> when it
   is "" and <<t>> when it is the RFC3339 text of instant t.  A []string is
   "nil", "empty" (non-nil, length 0) or "svc" (length 1).  The compliance
   payload is <<>> when it is nil and <<s>> when it is the sync response
   whose Data.LastCheckedAt is the timestamp string s. *)

ZeroDoc ==
  [ UUID |-> "", AppVersion |-> "", AccessToken |-> "", User |-> "nil",
    SyncState |-> "", LastCheckedAt |-> <<>>, LastSyncAttemptedAt |-> <<>>,
    ComplianceData |-> <<>>, WinAvServicesMatchList |-> "nil", Region |-> "" ]

SyncStateSuccess == "SUCCESS"

SyncStateError == "ERROR"

SyncStateRunning == "RUNNING"

ListLen(l) == IF l = "svc" THEN 1 ELSE 0

(* json.MarshalIndent with the omitempty tags: a zero value is left out, so
   an empty non-nil list is written like a nil one. *)
Marshal(doc) ==
  [doc EXCEPT !.WinAvServicesMatchList = IF ListLen(@) = 0 THEN "nil" ELSE @]

(* New()/load(): json.Unmarshal into a fresh DataStore; a key that is not
   in the file keeps its zero value.  A missing file gives the zero store. *)
Unmarshal(file) == file

FormatRFC3339(t) == <<t>>

ParseRFC3339(s) == s[1]

(* int(x) of a float64: truncation toward zero *)
TruncDiv(a, b) == IF a >= 0 THEN a \div b ELSE -((-a) \div b)

ElapsedMinutes(t, clock) == (clock - t) * ClockStep

MinutesSinceLastAttempt(doc, clock) ==
  IF doc.LastSyncAttemptedAt = <<>> THEN -1
  ELSE ElapsedMinutes(ParseRFC3339(doc.LastSyncAttemptedAt), clock)

HoursSinceLastSuccess(doc, clock) ==
  IF doc.LastCheckedAt = <<>> THEN -1
  ELSE TruncDiv(ElapsedMinutes(ParseRFC3339(doc.LastCheckedAt), clock), MinutesPerHour)

(* a faulty variant: registered once the handshake has completed *)
IsRegisteredByVersion(doc) == doc.AppVersion # ""

IsRegistered(doc) == doc.AccessToken # ""

IsInitDataReady(doc) == doc.WinAvServicesMatchList # "nil"

(* The Go type each case of Update's switch asserts for its key;
   complianceData is an interface{} and takes any value. *)
GoType(k) ==
  CASE k \in {"UUID", "AppVersion", "AccessToken", "LastCheckedAt",
              "LastSyncAttemptedAt"} -> "string"
    [] k = "SyncState" -> "SyncState"
    [] k = "Region" -> "Region"
    [] k = "User" -> "*User"
    [] k = "WinAvServicesMatchList" -> "[]string"
    [] k = "ComplianceData" -> "any"

(* a value of the map[string]interface{}: its dynamic type and its value *)
Typed(t, v) == [type |-> t, val |-> v]

(* v, ok := value.(T) *)
Assignable(k, value) == GoType(k) = "any" \/ value.type = GoType(k)

(* Update(updates): a key of the map whose value passes the type assertion
   is applied; every other field is kept, and so is the field of a key
   whose value fails the assertion.  A key without a case is ignored. *)
Update(doc, updates) ==
  [k \in DOMAIN doc |->
     IF k \in DOMAIN updates /\ Assignable(k, updates[k])
       THEN updates[k].val ELSE doc[k]]

---------------------------------------------------------------------------
(* CliConfig of the TypeScript CLI (~/.drata-agent/config.json).  A key
   that is absent or undefined is "", <<>> or "nil". *)
TsZero ==
  [ uuid |-> "", appVersion |-> "", accessToken |-> "", user |-> "nil",
    syncState |-> "", lastCheckedAt |-> <<>>, lastSyncAttemptedAt |-> <<>>,
    winAvServicesMatchList |-> "nil", region |-> "" ]

TsVersion == "VERSION"

TsIsRegistered(c) == c.accessToken # ""

TsIsInitDataReady(c) == c.winAvServicesMatchList # "nil"

(* multiSet: {...config, ...update} *)
TsMultiSet(c, update) ==
  [k \in DOMAIN c |-> IF k \in DOMAIN update THEN update[k] ELSE c[k]]

(* the axios request interceptor: a uuid is created when none is stored *)
TsIntercept(c, u) == IF c.uuid = "" THEN [c EXCEPT !.uuid = u] ELSE c

---------------------------------------------------------------------------
(* Processes.  "cli" is the one-shot Go command process (its DataStore is
   loaded by New() when the command starts); "initial" and "tick" are the
   daemon's goroutines (the delayed initial run and the cron job), which
   share the daemon's DataStore; "ts" is the TypeScript CLI process. *)

Procs == {"cli", "initial", "tick", "ts"}

SyncProcs == {"cli", "initial", "tick"}

DaemonProcs == {"initial", "tick"}

Owner(p) == IF p = "cli" THEN "cli" ELSE "daemon"

Ds(p) == mem[Owner(p)]

IdleProc ==
  [pc |-> "idle", cmd |-> "none", forced |-> FALSE, trace |-> <<>>, outcome |-> "none"]

NoResult ==
  [p |-> "none", cmd |-> "none", forced |-> FALSE, outcome |-> "none",
   err |-> FALSE, trace |-> <<>>]

(* no command has just returned: the caller has seen the last result *)
Ready == result = NoResult

(* a command or goroutine run that has just been entered *)
Entered(c, f, at) ==
  [pc |-> at, cmd |-> c, forced |-> f, trace |-> <<>>, outcome |-> "none"]

(* a faulty variant: every goroutine runs once, the schedule is lost *)
RestOnce(p) == [IdleProc EXCEPT !.pc = "exited"]

(* the delayed initial run happens once per daemon process *)
Rest(p) == IF p = "initial" THEN [IdleProc EXCEPT !.pc = "exited"] ELSE IdleProc

(* p's command c returns from its entry checks *)
Refuse(p, c, f, out, e) ==
  /\ proc' = [proc EXCEPT ![p] = Rest(p)]
  /\ result' = [p |-> p, cmd |-> c, forced |-> f, outcome |-> out, err |-> e,
                trace |-> <<>>]

Enter(p, c, f, at) ==
  /\ proc' = [proc EXCEPT ![p] = Entered(c, f, at)]
  /\ result' = result

Goto(p, at, ev) ==
  /\ proc' = [proc EXCEPT ![p].pc = at, ![p].trace = @ \o ev]
  /\ result' = result

Return(p, out, e, ev) ==
  /\ proc' = [proc EXCEPT ![p] = Rest(p)]
  /\ result' = [p |-> p, cmd |-> proc[p].cmd, forced |-> proc[p].forced,
                outcome |-> out, err |-> e, trace |-> proc[p].trace \o ev]

(* the pending error is kept while the run goes on to SetSyncState(ERROR) *)
Fail(p, out, ev) ==
  /\ proc' = [proc EXCEPT ![p].pc = "setError", ![p].outcome = out, ![p].trace = @ \o ev]
  /\ result' = result

(* One mutating DataStore call under its lock: the field change in memory,
   then save().  When os.WriteFile fails the memory keeps the change, the
   file keeps its old content and the call returns the error. *)
WriteOutcomes == IF faults < MaxFaults THEN BOOLEAN ELSE {TRUE}

StoreWrite(o, doc, ok) ==
  /\ mem' = [mem EXCEPT ![o] = doc]
  /\ disk' = IF ok THEN Marshal(doc) ELSE disk
  /\ faults' = IF ok THEN faults ELSE faults + 1

StoreKeep == UNCHANGED <<mem, disk, faults>>

(* New(): the command's DataStore is read from the file *)
StoreLoad(o) ==
  /\ mem' = [mem EXCEPT ![o] = Unmarshal(disk)]
  /\ disk' = disk
  /\ faults' = faults

Env == <<live, overlap, cfg, now, daemonUp, tsConfig, Aux>>

(* p may start a run: it is idle and, on a host whose runs do not overlap,
   so is every other process *)
CanStart(p) ==
  /\ p \in live
  /\ proc[p].pc = "idle"
  /\ overlap \/ \A q \in Procs \ {p} : proc[q].pc \in {"idle", "exited"}
  /\ overlap \/ p # "cli" \/ ~daemonUp

---------------------------------------------------------------------------
(* The throttle tests of runSync and performSync *)

(* faulty variants of the tests and of the entry routing, against which
   the properties below are validated *)
TooSoonStrict(minutes, minMinutes) == minutes > 0 /\ minutes < minMinutes

RecentSuccessStrict(hours, minHours) == hours > 0 /\ hours < minHours

EntryPointThrottled(f) == "chkMin"

TooSoon(minutes, minMinutes) == minutes >= 0 /\ minutes < minMinutes

RecentSuccess(hours, minHours) == hours >= 0 /\ hours < minHours

(* the single-run guard is inside runSync's "if !forceSync" block *)
GuardApplies(p, f) == p # "cli" \/ ~f

(* --force enters the pipeline at once, the other runs go through the
   throttle tests *)
EntryPoint(f) == IF f THEN "newOsq" ELSE "chkMin"

(* runSync returns fmt.Errorf for the guard and the minutes throttle,
   performSync logs and returns nil *)
SkipIsError(p) == p = "cli"

---------------------------------------------------------------------------
(* no store call, scheduler or collection of the component-level
   specifications is in use *)
NoCall == [op |-> "none"]

NoSched == [running |-> FALSE]

NoSnap == [phase |-> "none"]

AuxIdle ==
  /\ stopping = FALSE
  /\ call = NoCall
  /\ sched = NoSched
  /\ snap = NoSnap

Init ==
  /\ AuxIdle
  /\ live \in {{"cli", "tick"}, {"ts"}}
  /\ overlap = FALSE
  /\ cfg \in [MinMinutesBetweenSyncs : MinMinutesChoices,
              MinHoursSinceLastSync : MinHoursChoices]
  /\ now = 0
  /\ disk = ZeroDoc
  /\ faults = 0
  /\ mem = [o \in {"cli", "daemon"} |-> ZeroDoc]
  /\ daemonUp = FALSE
  /\ proc = [p \in Procs |-> IdleProc]
  /\ tsConfig = TsZero
  /\ result = NoResult

Tick ==
  /\ Ready
  /\ now < MaxNow
  /\ now' = now + 1
  /\ UNCHANGED <<live, overlap, cfg, disk, mem, faults, daemonUp, proc, tsConfig, result, Aux>>

(* the caller takes the result; a command process ends with it *)
Exit ==
  /\ ~Ready
  /\ result' = NoResult
  /\ mem' = IF result.p = "cli" THEN [mem EXCEPT !["cli"] = ZeroDoc] ELSE mem
  /\ UNCHANGED <<live, overlap, cfg, now, disk, faults, daemonUp, proc, tsConfig, Aux>>

---------------------------------------------------------------------------
(* drata-agent sync [--force] *)

RunSyncStart(f) ==
  /\ Ready
  /\ CanStart("cli")
  /\ StoreLoad("cli")
  /\ IF ~IsRegistered(Unmarshal(disk))
       THEN Refuse("cli", "sync", f, "notRegistered", TRUE)
     ELSE IF GuardApplies("cli", f) /\ Unmarshal(disk).SyncState = SyncStateRunning
       THEN Refuse("cli", "sync", f, "alreadyRunning", SkipIsError("cli"))
     ELSE Enter("cli", "sync", f, EntryPoint(f))
  /\ UNCHANGED Env

(* the daemon: runDaemon up to sched.Start(); it returns an error, and no
   daemon runs, when the store is not registered *)
DaemonStart ==
  /\ Ready
  /\ DaemonProcs \cap live # {}
  /\ ~daemonUp
  /\ IsRegistered(Unmarshal(disk))
  /\ daemonUp' = TRUE
  /\ mem' = [mem EXCEPT !["daemon"] = Unmarshal(disk)]
  /\ UNCHANGED <<live, overlap, cfg, now, disk, faults, proc, tsConfig, result, Aux>>

(* syncAction: the initial-run goroutine (once) or a cron firing *)
PerformSyncStart(p) ==
  /\ Ready
  /\ CanStart(p)
  /\ daemonUp
  /\ p = "tick" => ~stopping
  /\ IF GuardApplies(p, FALSE) /\ Ds(p).SyncState = SyncStateRunning
       THEN Refuse(p, "sync", FALSE, "alreadyRunning", SkipIsError(p))
       ELSE Enter(p, "sync", FALSE, EntryPoint(FALSE))
  /\ UNCHANGED <<disk, mem, faults, Env>>

(* runDaemon from the shutdown signal: sched.Stop() stops the cron
   scheduler, so no further tick fires; the goroutine of the delayed
   initial run is not a cron job and goes on *)
DaemonStop ==
  /\ Ready
  /\ daemonUp
  /\ ~stopping
  /\ stopping' = TRUE
  /\ UNCHANGED <<live, overlap, cfg, now, disk, mem, faults, daemonUp, proc,
                 tsConfig, result, call, sched, snap>>

(* <-ctx.Done(): cron's context is done when no cron job is running; then
   runDaemon returns and the process ends with all its goroutines *)
DaemonReturn ==
  /\ Ready
  /\ daemonUp
  /\ stopping
  /\ proc["tick"].pc = "idle"
  /\ daemonUp' = FALSE
  /\ stopping' = FALSE
  /\ proc' = [p \in Procs |-> IF p \in DaemonProcs THEN IdleProc ELSE proc[p]]
  /\ mem' = [mem EXCEPT !["daemon"] = ZeroDoc]
  /\ UNCHANGED <<live, overlap, cfg, now, disk, faults, tsConfig, result,
                 call, sched, snap>>

ChkMin(p) ==
  /\ Ready
  /\ proc[p].pc = "chkMin"
  /\ IF TooSoon(MinutesSinceLastAttempt(Ds(p), now), cfg.MinMinutesBetweenSyncs)
       THEN Return(p, "tooSoon", SkipIsError(p), <<>>)
       ELSE Goto(p, "chkHours", <<>>)
  /\ UNCHANGED <<disk, mem, faults, Env>>

ChkHours(p) ==
  /\ Ready
  /\ proc[p].pc = "chkHours"
  /\ IF RecentSuccess(HoursSinceLastSuccess(Ds(p), now), cfg.MinHoursSinceLastSync)
       THEN Return(p, "recentSuccess", FALSE, <<>>)
       ELSE Goto(p, IF p = "cli" THEN "newOsq" ELSE "setRunning", <<>>)
  /\ UNCHANGED <<disk, mem, faults, Env>>

(* osquery.NewClientWithVerbose: fails when no osqueryi binary is found *)
NewOsqueryClient(p) ==
  /\ Ready
  /\ proc[p].pc = "newOsq"
  /\ \E found \in BOOLEAN :
       IF found THEN Goto(p, "setRunning", <<>>)
       ELSE Return(p, "osqueryInitFailed", TRUE, <<>>)
  /\ UNCHANGED <<disk, mem, faults, Env>>

SetRunning(p) ==
  /\ Ready
  /\ proc[p].pc = "setRunning"
  /\ \E ok \in WriteOutcomes :
       /\ StoreWrite(Owner(p), [Ds(p) EXCEPT !.SyncState = SyncStateRunning], ok)
       /\ IF ok THEN Goto(p, "setAttempt", <<"w:RUNNING">>)
          ELSE Return(p, "stateWriteFailed", TRUE, <<>>)
  /\ UNCHANGED Env

SetAttempt(p) ==
  /\ Ready
  /\ proc[p].pc = "setAttempt"
  /\ \E ok \in WriteOutcomes :
       /\ StoreWrite(Owner(p),
            [Ds(p) EXCEPT !.LastSyncAttemptedAt = FormatRFC3339(now)], ok)
       /\ IF ok THEN Goto(p, "init", <<"w:attempt">>)
          ELSE Return(p, "attemptWriteFailed", TRUE, <<>>)
  /\ UNCHANGED Env

(* GET /agentv2/init when the init data is not cached: an error, or a body
   whose winAvServicesMatchList is absent, empty or not empty *)
InitResponses == {"fail", "nil", "empty", "svc"}

InitData(p) ==
  /\ Ready
  /\ proc[p].pc = "init"
  /\ IF IsInitDataReady(Ds(p))
       THEN Goto(p, "collect", <<>>) /\ StoreKeep
       ELSE \E resp \in InitResponses, ok \in WriteOutcomes :
              IF resp = "fail"
                THEN Fail(p, "initDataFailed", <<"api:init">>) /\ StoreKeep
              ELSE IF ListLen(resp) > 0
                THEN /\ StoreWrite(Owner(p),
                          [Ds(p) EXCEPT !.WinAvServicesMatchList = resp], ok)
                     /\ IF ok THEN Goto(p, "collect", <<"api:init">>)
                        ELSE Fail(p, "initDataFailed", <<"api:init">>)
              ELSE Goto(p, "collect", <<"api:init">>) /\ StoreKeep
  /\ UNCHANGED Env

(* osq.GetSystemInfo: every probe failure is swallowed; the only error is
   an unsupported platform, which NewClient has already excluded *)
Collect(p) ==
  /\ Ready
  /\ proc[p].pc = "collect"
  /\ Goto(p, "upload", <<"collect">>)
  /\ UNCHANGED <<disk, mem, faults, Env>>

(* POST /agentv2/sync and, on success, the Update of the store *)
SyncResponses ==
  {[ok |-> FALSE, lastCheckedAt |-> <<>>, winAv |-> "nil"]} \cup
  [ok : {TRUE}, lastCheckedAt : {<<>>, FormatRFC3339(now)}, winAv : {"nil", "svc"}]

(* the SyncResponse as it is stored under "complianceData" *)
SyncPayload(resp) == <<resp.lastCheckedAt>>

(* a faulty variant: the timestamp is written first and the payload is
   left to a later write *)
SyncUpdatesTimestampOnly(resp) ==
  [LastCheckedAt |-> Typed("string", resp.lastCheckedAt)]

SyncUpdates(resp) ==
  IF ListLen(resp.winAv) > 0
    THEN [ComplianceData |-> Typed("SyncResponse", SyncPayload(resp)),
          LastCheckedAt |-> Typed("string", resp.lastCheckedAt),
          WinAvServicesMatchList |-> Typed("[]string", resp.winAv)]
    ELSE [ComplianceData |-> Typed("SyncResponse", SyncPayload(resp)),
          LastCheckedAt |-> Typed("string", resp.lastCheckedAt)]

Upload(p) ==
  /\ Ready
  /\ proc[p].pc = "upload"
  /\ \E resp \in SyncResponses, ok \in WriteOutcomes :
       IF ~resp.ok
         THEN Fail(p, "syncFailed", <<"api:sync">>) /\ StoreKeep
         ELSE /\ StoreWrite(Owner(p), Update(Ds(p), SyncUpdates(resp)), ok)
              /\ IF ok THEN Goto(p, "setSuccess", <<"api:sync">>)
                 ELSE Fail(p, "syncFailed", <<"api:sync">>)
  /\ UNCHANGED Env

SetSuccess(p) ==
  /\ Ready
  /\ proc[p].pc = "setSuccess"
  /\ \E ok \in WriteOutcomes :
       /\ StoreWrite(Owner(p), [Ds(p) EXCEPT !.SyncState = SyncStateSuccess], ok)
       /\ IF ok THEN Return(p, "ok", FALSE, <<"w:SUCCESS">>)
          ELSE Return(p, "successWriteFailed", TRUE, <<>>)
  /\ UNCHANGED Env

(* the error paths: SetSyncState(ERROR), whose own error is only logged
   (runSync) or dropped (performSync), then the pending error is returned *)
SetError(p) ==
  /\ Ready
  /\ proc[p].pc = "setError"
  /\ \E ok \in WriteOutcomes :
       /\ StoreWrite(Owner(p), [Ds(p) EXCEPT !.SyncState = SyncStateError], ok)
       /\ Return(p, proc[p].outcome, TRUE, IF ok THEN <<"w:ERROR">> ELSE <<>>)
  /\ UNCHANGED Env

---------------------------------------------------------------------------
(* drata-agent register TOKEN --region R *)

(* up to SetRegion: the not-already-registered precondition, then the
   first store write *)
RunRegisterStart(region) ==
  /\ Ready
  /\ CanStart("cli")
  /\ IF IsRegistered(Unmarshal(disk))
       THEN /\ StoreLoad("cli")
            /\ Refuse("cli", "register", FALSE, "alreadyRegistered", TRUE)
       ELSE \E ok \in WriteOutcomes :
            /\ StoreWrite("cli", [Unmarshal(disk) EXCEPT !.Region = region], ok)
            /\ IF ok THEN Enter("cli", "register", FALSE, "setUUID")
               ELSE Refuse("cli", "register", FALSE, "regionWriteFailed", TRUE)
  /\ UNCHANGED Env

(* SetUUID(uuid.New()) when the store has none, then osquery.NewClient *)
SetUUID ==
  /\ Ready
  /\ proc["cli"].pc = "setUUID"
  /\ \E u \in UUIDs, ok \in WriteOutcomes, found \in BOOLEAN :
       IF Ds("cli").UUID = ""
         THEN /\ StoreWrite("cli", [Ds("cli") EXCEPT !.UUID = u], ok)
              /\ IF ~ok THEN Return("cli", "uuidWriteFailed", TRUE, <<>>)
                 ELSE IF ~found THEN Return("cli", "osqueryInitFailed", TRUE, <<>>)
                 ELSE Goto("cli", "login", <<>>)
         ELSE /\ StoreKeep
              /\ IF ~found THEN Return("cli", "osqueryInitFailed", TRUE, <<>>)
                 ELSE Goto("cli", "login", <<>>)
  /\ UNCHANGED Env

(* POST /auth/magic-link/TOKEN: an error, a body without accessToken or a
   body with one *)
AuthResponses == {"fail", "", "bearer"}

(* LoginWithMagicLink up to its call of GetMe *)
Login ==
  /\ Ready
  /\ proc["cli"].pc = "login"
  /\ \E resp \in AuthResponses, ok \in WriteOutcomes :
       IF resp = "fail"
         THEN Return("cli", "authFailed", TRUE, <<"api:auth">>) /\ StoreKeep
       ELSE IF resp # ""
         THEN /\ StoreWrite("cli", [Ds("cli") EXCEPT !.AccessToken = resp], ok)
              /\ IF ok THEN Goto("cli", "getMe", <<"api:auth">>)
                 ELSE Return("cli", "authFailed", TRUE, <<"api:auth">>)
       ELSE Goto("cli", "getMe", <<"api:auth">>) /\ StoreKeep
  /\ UNCHANGED Env

(* the backend answers an authenticated endpoint only to a request that
   carries a bearer credential (doRequest sets the header when the store
   has a token) *)
MeResponses(token) == IF token = "" THEN {"fail"} ELSE {"fail", "user"}

(* GetMe: GET /users/me, then SetUser *)
GetMe ==
  /\ Ready
  /\ proc["cli"].pc = "getMe"
  /\ \E resp \in MeResponses(Ds("cli").AccessToken), ok \in WriteOutcomes :
       IF resp = "fail"
         THEN Return("cli", "authFailed", TRUE, <<"api:me">>) /\ StoreKeep
         ELSE /\ StoreWrite("cli", [Ds("cli") EXCEPT !.User = resp], ok)
              /\ IF ok THEN Goto("cli", "register", <<"api:me">>)
                 ELSE Return("cli", "authFailed", TRUE, <<"api:me">>)
  /\ UNCHANGED Env

(* POST /agentv2/register: an error, or a body with or without
   lastcheckedAt *)
RegisterResponses ==
  {[ok |-> FALSE, lastCheckedAt |-> <<>>]} \cup
  [ok : {TRUE}, lastCheckedAt : {<<>>, FormatRFC3339(now)}]

(* GetAgentDeviceIdentifiers (which returns no error), then Register with
   SetLastCheckedAt when the answer has a timestamp *)
Register ==
  /\ Ready
  /\ proc["cli"].pc = "register"
  /\ \E resp \in RegisterResponses, ok \in WriteOutcomes :
       IF ~resp.ok
         THEN Return("cli", "registrationFailed", TRUE, <<"api:register">>)
              /\ StoreKeep
       ELSE IF resp.lastCheckedAt # <<>>
         THEN /\ StoreWrite("cli",
                   [Ds("cli") EXCEPT !.LastCheckedAt = resp.lastCheckedAt], ok)
              /\ IF ok THEN Goto("cli", "setAppVersion", <<"api:register">>)
                 ELSE Return("cli", "registrationFailed", TRUE, <<"api:register">>)
       ELSE Goto("cli", "setAppVersion", <<"api:register">>) /\ StoreKeep
  /\ UNCHANGED Env

SetAppVersion ==
  /\ Ready
  /\ proc["cli"].pc = "setAppVersion"
  /\ \E ok \in WriteOutcomes :
       /\ StoreWrite("cli", [Ds("cli") EXCEPT !.AppVersion = Version], ok)
       /\ IF ok THEN Return("cli", "ok", FALSE, <<"w:appVersion">>)
          ELSE Return("cli", "appVersionWriteFailed", TRUE, <<>>)
  /\ UNCHANGED Env

(* a faulty variant: only the credentials are reset *)
ClearCredentials(doc) == [doc EXCEPT !.AccessToken = "", !.User = "nil"]

(* Clear(): every field to its zero value (the path is kept) *)
Clear(doc) == ZeroDoc

(* drata-agent unregister: confirm is the answer to the prompt, or --yes *)
RunUnregister(confirm) ==
  /\ Ready
  /\ CanStart("cli")
  /\ IF ~IsRegistered(Unmarshal(disk))
       THEN /\ StoreLoad("cli")
            /\ Refuse("cli", "unregister", FALSE, "notRegistered", FALSE)
     ELSE IF ~confirm
       THEN /\ StoreLoad("cli")
            /\ Refuse("cli", "unregister", FALSE, "cancelled", FALSE)
     ELSE \E ok \in WriteOutcomes :
            /\ StoreWrite("cli", Clear(Unmarshal(disk)), ok)
            /\ IF ok THEN Refuse("cli", "unregister", FALSE, "ok", FALSE)
               ELSE Refuse("cli", "unregister", FALSE, "clearFailed", TRUE)
  /\ UNCHANGED Env

---------------------------------------------------------------------------
(* The TypeScript CLI.  Every CliConfigHelper write (set, multiSet, remove,
   clearData) rewrites the file. *)

TsEnv == <<live, overlap, cfg, now, disk, mem, faults, daemonUp, Aux>>

(* configure, up to the try block: the reconfigure prompt, then region and
   appVersion are saved *)
TsConfigureStart(region, reconfigure) ==
  /\ Ready
  /\ CanStart("ts")
  /\ IF TsIsRegistered(tsConfig) /\ ~reconfigure
       THEN /\ Refuse("ts", "register", FALSE, "unchanged", FALSE)
            /\ tsConfig' = tsConfig
       ELSE /\ Enter("ts", "register", FALSE, "login")
            /\ tsConfig' =
                 [(IF TsIsRegistered(tsConfig) THEN TsZero ELSE tsConfig)
                    EXCEPT !.region = region, !.appVersion = TsVersion]
  /\ UNCHANGED TsEnv

(* loginWithMagicLink up to getMe; configure's catch block clears the data *)
TsLogin ==
  /\ Ready
  /\ proc["ts"].pc = "login"
  /\ \E resp \in AuthResponses, u \in UUIDs :
       IF resp = "fail"
         THEN /\ Return("ts", "authFailed", TRUE, <<"api:auth">>)
              /\ tsConfig' = TsZero
       ELSE IF resp # ""
         THEN /\ Goto("ts", "getMe", <<"api:auth">>)
              /\ tsConfig' = [TsIntercept(tsConfig, u) EXCEPT !.accessToken = resp]
       ELSE /\ Goto("ts", "getMe", <<"api:auth">>)
            /\ tsConfig' = [TsIntercept(tsConfig, u) EXCEPT !.accessToken = "",
                                                            !.user = "nil"]
  /\ UNCHANGED TsEnv

TsGetMe ==
  /\ Ready
  /\ proc["ts"].pc = "getMe"
  /\ \E resp \in MeResponses(tsConfig.accessToken), u \in UUIDs :
       IF resp = "fail"
         THEN /\ Return("ts", "authFailed", TRUE, <<"api:me">>)
              /\ tsConfig' = TsZero
         ELSE /\ Goto("ts", "register", <<"api:me">>)
              /\ tsConfig' = [TsIntercept(tsConfig, u) EXCEPT !.user = resp]
  /\ UNCHANGED TsEnv

(* getAgentDeviceIdentifiers, then register *)
TsRegister ==
  /\ Ready
  /\ proc["ts"].pc = "register"
  /\ \E resp \in RegisterResponses, u \in UUIDs :
       IF ~resp.ok
         THEN /\ Return("ts", "registrationFailed", TRUE, <<"api:register">>)
              /\ tsConfig' = TsZero
         ELSE /\ Return("ts", "ok", FALSE, <<"api:register">>)
              /\ tsConfig' = [TsIntercept(tsConfig, u)
                                EXCEPT !.lastCheckedAt = resp.lastCheckedAt]
  /\ UNCHANGED TsEnv

TsSyncStart ==
  /\ Ready
  /\ CanStart("ts")
  /\ IF ~TsIsRegistered(tsConfig)
       THEN Refuse("ts", "sync", TRUE, "notRegistered", TRUE)
       ELSE Enter("ts", "sync", TRUE, "init")
  /\ UNCHANGED <<tsConfig, TsEnv>>

(* initialData when the init data is not ready; sync's catch block sets
   the state ERROR *)
TsInitData ==
  /\ Ready
  /\ proc["ts"].pc = "init"
  /\ IF TsIsInitDataReady(tsConfig)
       THEN Goto("ts", "mark", <<>>) /\ tsConfig' = tsConfig
       ELSE \E resp \in InitResponses, u \in UUIDs :
              IF resp = "fail"
                THEN /\ Return("ts", "initDataFailed", TRUE, <<"api:init", "w:ERROR">>)
                     /\ tsConfig' = [tsConfig EXCEPT !.syncState = SyncStateError]
                ELSE /\ Goto("ts", "mark", <<"api:init">>)
                     /\ tsConfig' = TsMultiSet(TsIntercept(tsConfig, u),
                                               [winAvServicesMatchList |-> resp])
  /\ UNCHANGED TsEnv

(* set('lastSyncAttemptedAt', ...) then set('syncState', RUNNING) *)
TsMarkRunning ==
  /\ Ready
  /\ proc["ts"].pc = "mark"
  /\ Goto("ts", "collect", <<"w:attempt", "w:RUNNING">>)
  /\ tsConfig' = [tsConfig EXCEPT !.lastSyncAttemptedAt = FormatRFC3339(now),
                                  !.syncState = SyncStateRunning]
  /\ UNCHANGED TsEnv

(* getSystemInfo: runQuery catches every probe error *)
TsCollect ==
  /\ Ready
  /\ proc["ts"].pc = "collect"
  /\ Goto("ts", "upload", <<"collect">>)
  /\ UNCHANGED <<tsConfig, TsEnv>>

(* apiService.sync with its multiSet, then set('syncState', SUCCESS) *)
TsUpload ==
  /\ Ready
  /\ proc["ts"].pc = "upload"
  /\ \E resp \in SyncResponses, u \in UUIDs :
       IF ~resp.ok
         THEN /\ Return("ts", "syncFailed", TRUE, <<"api:sync", "w:ERROR">>)
              /\ tsConfig' = [tsConfig EXCEPT !.syncState = SyncStateError]
         ELSE /\ Return("ts", "ok", FALSE, <<"api:sync", "w:SUCCESS">>)
              /\ tsConfig' =
                   [TsMultiSet(TsIntercept(tsConfig, u),
                               [lastCheckedAt |-> resp.lastCheckedAt,
                                winAvServicesMatchList |-> resp.winAv])
                      EXCEPT !.syncState = SyncStateSuccess]
  /\ UNCHANGED TsEnv

TsDisconnect(confirmed) ==
  /\ Ready
  /\ CanStart("ts")
  /\ IF ~TsIsRegistered(tsConfig)
       THEN Refuse("ts", "unregister", FALSE, "notRegistered", FALSE)
            /\ tsConfig' = tsConfig
     ELSE IF ~confirmed
       THEN Refuse("ts", "unregister", FALSE, "cancelled", FALSE)
            /\ tsConfig' = tsConfig
     ELSE Refuse("ts", "unregister", FALSE, "ok", FALSE) /\ tsConfig' = TsZero
  /\ UNCHANGED TsEnv

---------------------------------------------------------------------------
Next ==
  \/ Tick
  \/ Exit
  \/ \E f \in BOOLEAN : RunSyncStart(f)
  \/ DaemonStart
  \/ \E p \in DaemonProcs : PerformSyncStart(p)
  \/ \E p \in SyncProcs : ChkMin(p)
  \/ \E p \in SyncProcs : ChkHours(p)
  \/ \E p \in SyncProcs : NewOsqueryClient(p)
  \/ \E p \in SyncProcs : SetRunning(p)
  \/ \E p \in SyncProcs : SetAttempt(p)
  \/ \E p \in SyncProcs : InitData(p)
  \/ \E p \in SyncProcs : Collect(p)
  \/ \E p \in SyncProcs : Upload(p)
  \/ \E p \in SyncProcs : SetSuccess(p)
  \/ \E p \in SyncProcs : SetError(p)
  \/ \E r \in Regions : RunRegisterStart(r)
  \/ SetUUID
  \/ Login
  \/ GetMe
  \/ Register
  \/ SetAppVersion
  \/ \E c \in BOOLEAN : RunUnregister(c)
  \/ \E r \in Regions, c \in BOOLEAN : TsConfigureStart(r, c)
  \/ TsLogin
  \/ TsGetMe
  \/ TsRegister
  \/ TsSyncStart
  \/ TsInitData
  \/ TsMarkRunning
  \/ TsCollect
  \/ TsUpload
  \/ \E c \in BOOLEAN : TsDisconnect(c)

Spec == Init /\ [][Next]_vars

---------------------------------------------------------------------------
(* A host on which the agent has been registered and the daemon is used:
   the delayed initial run and the cron ticks interleave, the daemon can be
   stopped and started again, and the operator may unregister while it is
   up.  The store is the one a successful runRegister leaves. *)

RegisteredDocs ==
  { [ZeroDoc EXCEPT !.Region = "NA", !.UUID = "u1", !.AccessToken = "bearer",
                    !.User = "user", !.LastCheckedAt = t, !.AppVersion = Version]
      : t \in {<<>>, FormatRFC3339(0)} }

InitDaemon ==
  /\ AuxIdle
  /\ live = {"cli", "initial", "tick"}
  /\ overlap = TRUE
  /\ cfg \in [MinMinutesBetweenSyncs : MinMinutesChoices,
              MinHoursSinceLastSync : MinHoursChoices]
  /\ now = 0
  /\ disk \in RegisteredDocs
  /\ faults = MaxFaults
  /\ mem = [o \in {"cli", "daemon"} |-> ZeroDoc]
  /\ daemonUp = FALSE
  /\ proc = [p \in Procs |-> IdleProc]
  /\ tsConfig = TsZero
  /\ result = NoResult

NextDaemon ==
  \/ Tick
  \/ Exit
  \/ DaemonStart
  \/ DaemonStop
  \/ DaemonReturn
  \/ \E p \in DaemonProcs : PerformSyncStart(p)
  \/ \E p \in DaemonProcs : ChkMin(p)
  \/ \E p \in DaemonProcs : ChkHours(p)
  \/ \E p \in DaemonProcs : SetRunning(p)
  \/ \E p \in DaemonProcs : SetAttempt(p)
  \/ \E p \in DaemonProcs : InitData(p)
  \/ \E p \in DaemonProcs : Collect(p)
  \/ \E p \in DaemonProcs : Upload(p)
  \/ \E p \in DaemonProcs : SetSuccess(p)
  \/ \E p \in DaemonProcs : SetError(p)
  \/ \E c \in BOOLEAN : RunUnregister(c)

SpecDaemon == InitDaemon /\ [][NextDaemon]_vars

---------------------------------------------------------------------------
(* Vocabulary of the properties *)

ApiEvents == {"api:auth", "api:me", "api:register", "api:init", "api:sync"}

HasEvent(tr, e) == \E i \in DOMAIN tr : tr[i] = e

HasApi(tr) == \E i \in DOMAIN tr : tr[i] \in ApiEvents

PipelineEvents == {"api:init", "collect", "api:sync"}

HasPipeline(tr) == \E i \in DOMAIN tr : tr[i] \in PipelineEvents

(* the sync state, the attempt time and the credential in p's state file *)
PersistedState(p) == IF p = "ts" THEN tsConfig.syncState ELSE disk.SyncState

PersistedAttempt(p) ==
  IF p = "ts" THEN tsConfig.lastSyncAttemptedAt ELSE disk.LastSyncAttemptedAt

PersistedToken(p) == IF p = "ts" THEN tsConfig.accessToken ELSE disk.AccessToken

(* the store a trigger of p tests: the file for a command, the daemon's
   DataStore for a goroutine *)
Seen(p) == IF p = "cli" THEN Unmarshal(disk) ELSE Ds(p)

(* this step is a return of p *)
Returns(p) == result = NoResult /\ result' # NoResult /\ result'.p = p

(* this step is a sync trigger of p: runSync or performSync is entered *)
Triggers(p) ==
  /\ proc[p].pc = "idle"
  /\ \/ proc'[p].cmd = "sync"
     \/ Returns(p) /\ result'.cmd = "sync"

(* what p's run has done after this step *)
TraceAfter(p) == IF Returns(p) THEN result'.trace ELSE proc'[p].trace

StoresUnchanged == disk' = disk /\ mem' = mem /\ tsConfig' = tsConfig

(* the time order of instant strings, "" first *)
NotBefore(a, b) == b = <<>> \/ (a # <<>> /\ ParseRFC3339(a) >= ParseRFC3339(b))

---------------------------------------------------------------------------
(* C1: a sync trigger (runSync with or without --force, or performSync)
   that finds the state RUNNING is refused: it returns at once as
   "already running", nothing is collected or requested and no store
   changes, whatever the forced flag is. *)
C1_RunningRefusesEveryTrigger ==
  [][\A p \in SyncProcs :
       (Triggers(p) /\ IsRegistered(Seen(p)) /\ Seen(p).SyncState = SyncStateRunning)
         => /\ Returns(p)
            /\ result'.outcome = "alreadyRunning"
            /\ result'.trace = <<>>
            /\ disk' = disk]_vars

(* C2: when a sync run that has set the state RUNNING returns, the
   persisted state is SUCCESS or ERROR. *)
C2_RunEndsSuccessOrError ==
  (result.cmd = "sync" /\ HasEvent(result.trace, "w:RUNNING"))
    => PersistedState(result.p) \in {SyncStateSuccess, SyncStateError}

(* C3: a non-forced run that reaches the minutes throttle with a last
   attempt less than MinMinutesBetweenSyncs minutes old returns there: no
   pipeline step has run and no store changes. *)
C3_MinutesThrottleSkips ==
  [][\A p \in SyncProcs :
       ( /\ proc[p].pc = "chkMin"
         /\ proc'[p] # proc[p]
         /\ Ds(p).LastSyncAttemptedAt # <<>>
         /\ ElapsedMinutes(ParseRFC3339(Ds(p).LastSyncAttemptedAt), now)
              < cfg.MinMinutesBetweenSyncs )
         => /\ Returns(p)
            /\ result'.outcome = "tooSoon"
            /\ ~result'.forced
            /\ ~HasPipeline(result'.trace)
            /\ StoresUnchanged]_vars

C3_Witness ==
  /\ result.p = "tick"
  /\ result.outcome = "tooSoon"
  /\ disk.LastSyncAttemptedAt = FormatRFC3339(now)

(* C4: sync --force on a registered agent whose state is not RUNNING goes
   straight into the pipeline: it never passes through a throttle test,
   it fetches the init data exactly when they are not cached, and a run
   that returns without error has set RUNNING, recorded the attempt,
   collected, uploaded and set SUCCESS, in that order. *)
C4_FullTraces ==
  { <<"w:RUNNING", "w:attempt", "collect", "api:sync", "w:SUCCESS">>,
    <<"w:RUNNING", "w:attempt", "api:init", "collect", "api:sync", "w:SUCCESS">> }

C4_ForcedRunsPipeline ==
  /\ [](proc["cli"].cmd = "sync" /\ proc["cli"].forced
          => proc["cli"].pc \notin {"chkMin", "chkHours"})
  /\ [](result.p = "cli" /\ result.cmd = "sync" /\ result.forced
          => /\ result.outcome \notin {"tooSoon", "recentSuccess"}
             /\ result.outcome = "ok" => result.trace \in C4_FullTraces)
  /\ [][( /\ Triggers("cli")
          /\ IsRegistered(Unmarshal(disk))
          /\ Unmarshal(disk).SyncState # SyncStateRunning
          /\ (proc'["cli"].forced \/ (Returns("cli") /\ result'.forced)) )
          => proc'["cli"].pc = "newOsq"]_vars
  /\ [][( /\ proc["cli"].pc = "init" /\ proc["cli"].forced
          /\ proc'["cli"] # proc["cli"] )
          => (HasEvent(TraceAfter("cli"), "api:init")
                <=> ~IsInitDataReady(Ds("cli")))]_vars

C4_Witness ==
  /\ result.p = "cli" /\ result.cmd = "sync" /\ result.forced
  /\ result.outcome = "ok"
  /\ HasEvent(result.trace, "api:init")
  /\ now > 0

(* C5: in every sync run (runSync, performSync, the TypeScript sync) the
   persisted state is RUNNING when the run makes its first API request,
   the init-data fetch included. *)
C5_RunningAtFirstRequest ==
  [][\A p \in Procs :
       ( /\ proc[p].cmd = "sync"
         /\ ~HasApi(proc[p].trace)
         /\ HasApi(TraceAfter(p)) )
         => PersistedState(p) = SyncStateRunning]_vars

(* C6: in every sync run the last-attempt time is persisted before the
   first API request, and no step of a sync run moves the persisted
   last-attempt time back. *)
C6_AttemptBeforeFirstRequest ==
  [][\A p \in Procs :
       /\ ( /\ proc[p].cmd = "sync"
            /\ ~HasApi(proc[p].trace)
            /\ HasApi(TraceAfter(p)) )
            => /\ HasEvent(proc[p].trace, "w:attempt")
               /\ PersistedAttempt(p) # <<>>
       /\ (proc[p].cmd = "sync" /\ proc'[p] # proc[p])
            => NotBefore(PersistedAttempt(p)', PersistedAttempt(p))]_vars

(* C7: a non-forced run that reaches the hours throttle (neither the
   guard nor the minutes throttle has stopped it) with a last success
   less than MinHoursSinceLastSync hours old returns there without error:
   no pipeline step has run and no store changes. *)
C7_HoursThrottleSkips ==
  [][\A p \in SyncProcs :
       ( /\ proc[p].pc = "chkHours"
         /\ proc'[p] # proc[p]
         /\ Ds(p).LastCheckedAt # <<>>
         /\ ElapsedMinutes(ParseRFC3339(Ds(p).LastCheckedAt), now)
              < cfg.MinHoursSinceLastSync * MinutesPerHour )
         => /\ Returns(p)
            /\ result'.outcome = "recentSuccess"
            /\ ~result'.err
            /\ ~result'.forced
            /\ ~HasPipeline(result'.trace)
            /\ StoresUnchanged]_vars

C7_Witness ==
  /\ result.p = "cli"
  /\ result.outcome = "recentSuccess"
  /\ disk.LastSyncAttemptedAt # <<>>
  /\ now > ParseRFC3339(disk.LastCheckedAt)

(* C8: a skip by the single-run guard or by the minutes throttle is
   reported as a non-error outcome, by runSync as by performSync. *)
C8_SkipIsNotAnError ==
  result.outcome \in {"alreadyRunning", "tooSoon"} => ~result.err

(* C9: when the authentication step of a registration fails (the token
   exchange or the user-profile fetch), the registration endpoint has not
   been called and no bearer credential is persisted. *)
C9_FailedAuthPersistsNothing ==
  (result.cmd = "register" /\ result.outcome = "authFailed")
    => /\ ~HasEvent(result.trace, "api:register")
       /\ PersistedToken(result.p) = ""

(* C10: when runRegister has authenticated and the Register call fails,
   the store holds the credential and no app version; and as long as the
   store holds a credential every runRegister is rejected as "already
   registered" before any request and without changing the file. *)
C10_FailedRegisterBlocksRetry ==
  /\ []((result.p = "cli" /\ result.cmd = "register"
           /\ result.outcome = "registrationFailed")
          => /\ disk.AccessToken # ""
             /\ disk.AppVersion = ""
             /\ HasEvent(result.trace, "api:me"))
  /\ [][( /\ proc["cli"].pc = "idle"
          /\ disk.AccessToken # ""
          /\ (proc'["cli"].cmd = "register"
                \/ (Returns("cli") /\ result'.cmd = "register")) )
          => /\ Returns("cli")
             /\ result'.outcome = "alreadyRegistered"
             /\ result'.err
             /\ result'.trace = <<>>
             /\ disk' = disk]_vars

C10_Witness ==
  /\ result.p = "cli" /\ result.cmd = "register"
  /\ result.outcome = "alreadyRegistered"
  /\ disk.AccessToken # ""
  /\ disk.AppVersion = ""
  /\ disk.User = "user"

---------------------------------------------------------------------------
(* the events p's run adds in this step *)
StepEvents(p) ==
  SubSeq(TraceAfter(p), Len(proc[p].trace) + 1, Len(TraceAfter(p)))

(* this step is a pipeline step of p: an init-data fetch, a collection or
   an upload *)
PipelineStep(p) ==
  /\ proc[p].cmd = "sync"
  /\ \E i \in DOMAIN StepEvents(p) : StepEvents(p)[i] \in PipelineEvents

(* C11: no pipeline step (init-data fetch, collection, upload) of runSync
   or of the daemon is executed while the agent is unregistered, that is
   while the access token in the state file is empty; Clear leaves the
   agent unregistered. *)
C11_NoPipelineWhileUnregistered ==
  [][\A p \in SyncProcs : PipelineStep(p) => IsRegistered(Unmarshal(disk))]_vars

---------------------------------------------------------------------------
(* The DataStore API on its own: one process that owns the store (the
   store "cli") calls the mutators in any order.  call is the last call
   made: its name, its arguments and whether it returned an error. *)

Keys == DOMAIN ZeroDoc

NonZero(k) ==
  CASE k = "UUID" -> "u1"
    [] k = "AppVersion" -> Version
    [] k = "AccessToken" -> "bearer"
    [] k = "User" -> "user"
    [] k = "SyncState" -> SyncStateSuccess
    [] k \in {"LastCheckedAt", "LastSyncAttemptedAt"} -> FormatRFC3339(0)
    [] k = "ComplianceData" -> <<FormatRFC3339(0)>>
    [] k = "WinAvServicesMatchList" -> "svc"
    [] k = "Region" -> "NA"

(* the values a caller may pass for field k: a []string may also be the
   empty non-nil slice *)
FieldValues(k) ==
  {ZeroDoc[k], NonZero(k)}
    \cup (IF k = "WinAvServicesMatchList" THEN {"empty"} ELSE {})

(* every field set *)
FullDoc == [k \in Keys |-> NonZero(k)]

(* the files a store is opened from: nothing or everything set, one
   field set, one field missing, and the files of a registered agent *)
StoreDocs ==
  {ZeroDoc, FullDoc} \cup RegisteredDocs
    \cup {[ZeroDoc EXCEPT ![k] = NonZero(k)] : k \in Keys}
    \cup {[FullDoc EXCEPT ![k] = ZeroDoc[k]] : k \in Keys}

(* the dynamic type of a well-typed value for key k *)
DynType(k) == IF GoType(k) = "any" THEN "SyncResponse" ELSE GoType(k)

(* a value of another dynamic type, as a map[string]interface{} allows:
   a plain string for a SyncState, a Region, a *User or a []string, and a
   []byte for a string *)
Mistyped(k) == Typed(IF GoType(k) = "string" THEN "[]byte" ELSE "string", NonZero(k))

UpdateKeys == Keys \cup {"unknown"}

(* what a caller passes for key k: the zero value, a non-zero value, the
   empty slice, or a value of another dynamic type *)
UpdateChoices(k) ==
  IF k = "unknown" THEN {"set"}
  ELSE {"zero", "set", "mistyped"}
         \cup (IF k = "WinAvServicesMatchList" THEN {"empty"} ELSE {})

Arg(k, c) ==
  CASE k = "unknown" -> Typed("string", "x")
    [] k # "unknown" /\ c = "mistyped" -> Mistyped(k)
    [] k # "unknown" /\ c = "zero" -> Typed(DynType(k), ZeroDoc[k])
    [] k # "unknown" /\ c = "empty" -> Typed(DynType(k), "empty")
    [] k # "unknown" /\ c = "set" -> Typed(DynType(k), NonZero(k))

(* the key sets of the maps: none, one or two keys, and the three keys
   that api.Client.Sync passes *)
SyncKeys == {"ComplianceData", "LastCheckedAt", "WinAvServicesMatchList"}

UpdateKeySets == {{a, b} : a \in UpdateKeys, b \in UpdateKeys} \cup {{}, SyncKeys}

(* a map is written as the choice made for each of its keys *)
UpdateMaps ==
  UNION { { c \in [ks -> {"zero", "set", "mistyped", "empty"}] :
              \A k \in ks : c[k] \in UpdateChoices(k) } : ks \in UpdateKeySets }

Updates(c) == [k \in DOMAIN c |-> Arg(k, c[k])]

StoreEnv ==
  <<live, overlap, cfg, now, daemonUp, proc, tsConfig, result, stopping, sched, snap>>

Called(op, arg, ok) == call' = [op |-> op, arg |-> arg, err |-> ~ok]

(* Set<Field>(v): the field in memory, then save() *)
Set(k, v) ==
  /\ \E ok \in WriteOutcomes :
       /\ StoreWrite("cli", [mem["cli"] EXCEPT ![k] = v], ok)
       /\ Called("Set", <<k, v>>, ok)
  /\ UNCHANGED StoreEnv

StoreUpdate(c) ==
  /\ \E ok \in WriteOutcomes :
       /\ StoreWrite("cli", Update(mem["cli"], Updates(c)), ok)
       /\ Called("Update", c, ok)
  /\ UNCHANGED StoreEnv

(* Clear(); the argument kept is the document the store held *)
StoreClear ==
  /\ \E ok \in WriteOutcomes :
       /\ StoreWrite("cli", Clear(mem["cli"]), ok)
       /\ Called("Clear", mem["cli"], ok)
  /\ UNCHANGED StoreEnv

(* New(): a store freshly created from the same file *)
StoreNew ==
  /\ StoreLoad("cli")
  /\ Called("New", <<>>, TRUE)
  /\ UNCHANGED StoreEnv

InitStore ==
  /\ stopping = FALSE /\ sched = NoSched /\ snap = NoSnap
  /\ call = [op |-> "New", arg |-> <<>>, err |-> FALSE]
  /\ live = {"cli"}
  /\ overlap = FALSE
  /\ cfg \in [MinMinutesBetweenSyncs : MinMinutesChoices,
              MinHoursSinceLastSync : MinHoursChoices]
  /\ now = 0
  /\ disk \in StoreDocs
  /\ faults = 0
  /\ mem = [o \in {"cli", "daemon"} |-> IF o = "cli" THEN Unmarshal(disk) ELSE ZeroDoc]
  /\ daemonUp = FALSE
  /\ proc = [p \in Procs |-> IdleProc]
  /\ tsConfig = TsZero
  /\ result = NoResult

(* the maps api.Client.Sync builds *)
SyncMaps ==
  {c \in UpdateMaps :
     /\ {"ComplianceData", "LastCheckedAt"} \subseteq DOMAIN c
     /\ DOMAIN c \subseteq SyncKeys
     /\ c["ComplianceData"] = "set"
     /\ c["LastCheckedAt"] \in {"zero", "set"}
     /\ \A k \in DOMAIN c : k = "WinAvServicesMatchList" => c[k] = "set"}

(* any sequence of mutator calls and reopenings *)
NextStore ==
  \/ \E k \in Keys : \E v \in FieldValues(k) : Set(k, v)
  \/ \E c \in SyncMaps : StoreUpdate(c)
  \/ StoreClear
  \/ StoreNew

SpecStore == InitStore /\ [][NextStore]_vars

(* Update as the first call on a store just opened, with any map *)
FirstUpdate(c) ==
  /\ call.op = "New"
  /\ StoreUpdate(c)

NextUpdate == \E c \in UpdateMaps : FirstUpdate(c)

SpecUpdate == InitStore /\ [][NextUpdate]_vars

---------------------------------------------------------------------------
(* what a caller can observe of a store: every getter (a []string by its
   elements), IsRegistered and IsInitDataReady *)
Observed(doc) ==
  [getters |-> [doc EXCEPT !.WinAvServicesMatchList = ListLen(@)],
   registered |-> IsRegistered(doc),
   initDataReady |-> IsInitDataReady(doc)]

(* C12: after any sequence of mutating store calls (Set*, Update, Clear)
   that all succeeded, a store freshly created with New() from the same
   file observes the same as the in-memory store: every getter,
   IsRegistered and IsInitDataReady. *)
C12_FreshStoreAgrees ==
  faults = 0 => Observed(Unmarshal(disk)) = Observed(mem["cli"])

(* C13: for every set of store field keys and every value given for them,
   an Update that returns no error, followed by the getters, returns
   exactly the written value for every key in the update and the previous
   value for every key not in the update. *)
C13_UpdateWritesGivenValues ==
  [][(call'.op = "Update" /\ ~call'.err) =>
       \A k \in Keys :
         mem'["cli"][k] = IF k \in DOMAIN call'.arg
                            THEN Updates(call'.arg)[k].val
                            ELSE mem["cli"][k]]_vars

(* C14: from any store state, Clear leaves every field at its zero value
   and writes the cleared document to the store's file when it returns no
   error; every getter called after it returns a zero value. *)
C14_ClearZeroesEveryField ==
  call.op = "Clear" =>
    /\ mem["cli"] = ZeroDoc
    /\ ~call.err => disk = Marshal(ZeroDoc)

(* Clear has returned no error on a store that held every field *)
C14_Witness ==
  /\ call.op = "Clear"
  /\ ~call.err
  /\ call.arg = FullDoc
  /\ disk = ZeroDoc

---------------------------------------------------------------------------
(* the documents a store state consists of: each process's memory and the
   file *)
StoreStates == {mem["cli"], mem["daemon"], Unmarshal(disk)}

(* p's step handles the answer of POST /agentv2/sync *)
UploadStep(p) ==
  /\ proc[p].cmd = "sync"
  /\ \E i \in DOMAIN StepEvents(p) : StepEvents(p)[i] = "api:sync"

(* p's upload has succeeded: the run goes on to SetSyncState(SUCCESS) *)
UploadSucceeds(p) == UploadStep(p) /\ proc'[p].pc = "setSuccess"

(* p's step is the SetSyncState(SUCCESS) of its run *)
SuccessStep(p) ==
  /\ proc[p].cmd = "sync"
  /\ \E i \in DOMAIN StepEvents(p) : StepEvents(p)[i] = "w:SUCCESS"

(* C15: on a successful upload the new last-checked-at, the compliance
   payload and (when present) the match list are applied and written in
   one single store write: the step changes the run's store and the file
   to one document that holds the answer's timestamp together with the
   answer as payload, and a failed upload changes neither.  No store state,
   in memory or on disk, holds the last-checked-at of an upload without its
   payload, and the state becomes SUCCESS only in a later step of a run
   whose upload was written. *)
C15_UploadIsOneWrite ==
  [][\A p \in SyncProcs :
       /\ UploadSucceeds(p) =>
            /\ mem'[Owner(p)].ComplianceData = <<mem'[Owner(p)].LastCheckedAt>>
            /\ disk' = Marshal(mem'[Owner(p)])
            /\ \A k \in Keys \ SyncKeys : mem'[Owner(p)][k] = mem[Owner(p)][k]
       /\ (UploadStep(p) /\ ~UploadSucceeds(p)) => disk' = disk
       /\ \A d \in StoreStates :
            d.ComplianceData = <<>> \/ d.ComplianceData = <<d.LastCheckedAt>>
       /\ SuccessStep(p) =>
            /\ HasEvent(proc[p].trace, "api:sync")
            /\ mem[Owner(p)].ComplianceData = <<mem[Owner(p)].LastCheckedAt>>
            /\ mem'[Owner(p)].ComplianceData = mem[Owner(p)].ComplianceData]_vars

(* a sync run has returned with state SUCCESS after an upload whose
   timestamp, payload and match list are in the file *)
C15_Witness ==
  /\ result.cmd = "sync"
  /\ result.outcome = "ok"
  /\ HasEvent(result.trace, "api:sync")
  /\ Unmarshal(disk).SyncState = SyncStateSuccess
  /\ Unmarshal(disk).LastCheckedAt # <<>>
  /\ Unmarshal(disk).ComplianceData = <<Unmarshal(disk).LastCheckedAt>>
  /\ Unmarshal(disk).WinAvServicesMatchList = "svc"

---------------------------------------------------------------------------
(* a sync run started by the daemon is in progress *)
InProgress(p) == proc[p].pc \notin {"idle", "exited"}

(* C16: on a graceful daemon stop, when the wait on the context returned
   by Stop has completed and runDaemon returns, no sync run started by the
   daemon (a scheduled tick or the delayed initial run) is still in
   progress. *)
C16_NoRunInProgressAtReturn ==
  [][(daemonUp /\ ~daemonUp') => \A p \in DaemonProcs : ~InProgress(p)]_vars

---------------------------------------------------------------------------
(* scheduler.Scheduler over robfig/cron.  sched holds the Scheduler's
   fields (running, jobs), the cron's entries and next entry id, and the
   wall clock in whole hours since a midnight.  An entry is the schedule
   parsed from its expression ("hours": "0 0 */N * * *", "minutes":
   "0 */N * * * *"), its action and the hour of its last firing (-1 before
   the first).  call is the history of the calls: the last one, whether any
   returned an error, and the action last supplied for each id that was
   scheduled and not removed since. *)

MaxInterval == 25

MaxHours == 49

MaxEntries == 3

HoursPerDay == 24

JobIds == {"sync", "aux"}

JobActions == {"f", "g"}

(* the intervals the calls are made with: one the parser refuses and two
   it accepts *)
IntervalChoices == {0, 1, 2}

EmptyMap == [x \in {} |-> 0]

Put(f, k, v) == [x \in DOMAIN f \cup {k} |-> IF x = k THEN v ELSE f[x]]

Drop(f, k) == [x \in DOMAIN f \ {k} |-> f[x]]

NewScheduler ==
  [running |-> FALSE, jobs |-> EmptyMap, entries |-> EmptyMap, next |-> 1, clock |-> 0]

(* cron's parser: the step of "*/N" must be a positive number; a step
   larger than the field's range is accepted *)
ParseError(n) == n <= 0

(* the hours of the day an "hours" schedule has set: the range 0-23 walked
   with the step; a "minutes" schedule has every hour and minute 0 *)
Fires(entry, t) ==
  IF entry.kind = "hours" THEN ((t % HoursPerDay) % entry.step) = 0 ELSE TRUE

(* a faulty variant: the entry of an id scheduled before is left in the
   cron *)
WithoutJobKept(id) == sched.entries

(* cron.Remove of the entry the id maps to, if the id is in the map *)
WithoutJob(id) ==
  IF id \in DOMAIN sched.jobs THEN Drop(sched.entries, sched.jobs[id]) ELSE sched.entries

SchedEnv ==
  <<live, overlap, cfg, now, disk, mem, faults, daemonUp, proc, tsConfig, result,
    stopping, snap>>

Schedule(id, kind, n, a) ==
  /\ sched.next <= MaxEntries
  /\ IF ParseError(n)
       THEN /\ sched' = [sched EXCEPT !.entries = WithoutJob(id)]
            /\ call' = [call EXCEPT !.op = "Schedule", !.err = TRUE, !.failed = TRUE,
                                    !.cron = "none"]
       ELSE /\ sched' = [sched EXCEPT
                           !.entries = Put(WithoutJob(id), sched.next,
                                           [kind |-> kind, step |-> n, action |-> a,
                                            last |-> -1]),
                           !.jobs = Put(@, id, sched.next),
                           !.next = @ + 1]
            /\ call' = [call EXCEPT !.op = "Schedule", !.err = FALSE,
                                    !.want = Put(@, id, a), !.cron = "none"]
  /\ UNCHANGED SchedEnv

ScheduleJob(id, intervalHours, a) == Schedule(id, "hours", intervalHours, a)

ScheduleJobWithMinutes(id, intervalMinutes, a) == Schedule(id, "minutes", intervalMinutes, a)

RemoveJob(id) ==
  /\ sched' = IF id \in DOMAIN sched.jobs
                THEN [sched EXCEPT !.entries = WithoutJob(id), !.jobs = Drop(@, id)]
                ELSE sched
  /\ call' = [call EXCEPT !.op = "RemoveJob", !.err = FALSE, !.want = Drop(@, id),
                          !.cron = "none"]
  /\ UNCHANGED SchedEnv

(* a faulty variant: Stop leaves the flag set *)
StoppedStillRunning(s) == s

(* Stop's branch for a running scheduler, after cron.Stop() *)
Stopped(s) == [s EXCEPT !.running = FALSE]

(* Start: cron.Start() and the flag, when the scheduler is not running;
   call.cron is what the call did to the cron *)
SchedStart ==
  /\ sched' = IF ~sched.running THEN [sched EXCEPT !.running = TRUE] ELSE sched
  /\ call' = [call EXCEPT !.op = "Start", !.err = FALSE,
                          !.cron = IF ~sched.running THEN "Start" ELSE "none"]
  /\ UNCHANGED SchedEnv

(* Stop: cron.Stop() and the flag, when the scheduler is running *)
SchedStop ==
  /\ sched' = IF sched.running THEN Stopped(sched) ELSE sched
  /\ call' = [call EXCEPT !.op = "Stop", !.err = FALSE,
                          !.cron = IF sched.running THEN "Stop" ELSE "none"]
  /\ UNCHANGED SchedEnv

JobCount == Cardinality(DOMAIN sched.jobs)

(* the clock reaches the next full hour: a running cron fires every entry
   whose schedule has that hour *)
Advance ==
  /\ sched.clock < MaxHours
  /\ sched' = [sched EXCEPT
                 !.clock = @ + 1,
                 !.entries = [e \in DOMAIN @ |->
                                IF sched.running /\ Fires(@[e], sched.clock + 1)
                                  THEN [@[e] EXCEPT !.last = sched.clock + 1]
                                  ELSE @[e]]]
  /\ call' = call
  /\ UNCHANGED SchedEnv

InitSched ==
  /\ stopping = FALSE /\ snap = NoSnap
  /\ sched = NewScheduler
  /\ call = [op |-> "NewScheduler", err |-> FALSE, failed |-> FALSE, want |-> EmptyMap,
             cron |-> "none"]
  /\ live = {"tick"}
  /\ overlap = FALSE
  /\ cfg \in [MinMinutesBetweenSyncs : MinMinutesChoices,
              MinHoursSinceLastSync : MinHoursChoices]
  /\ now = 0
  /\ disk \in RegisteredDocs
  /\ faults = 0
  /\ mem = [o \in {"cli", "daemon"} |-> ZeroDoc]
  /\ daemonUp = FALSE
  /\ proc = [p \in Procs |-> IdleProc]
  /\ tsConfig = TsZero
  /\ result = NoResult

(* the scheduler's API called in any order *)
NextSched ==
  \/ \E id \in JobIds, n \in IntervalChoices, a \in JobActions : ScheduleJob(id, n, a)
  \/ \E id \in JobIds, n \in IntervalChoices, a \in JobActions : ScheduleJobWithMinutes(id, n, a)
  \/ \E id \in JobIds : RemoveJob(id)
  \/ SchedStart
  \/ SchedStop

SpecSched == InitSched /\ [][NextSched]_vars

(* the daemon's use: one job scheduled with any interval, the scheduler
   started, and time passing *)
NextCron ==
  \/ \E n \in 0 .. MaxInterval : ScheduleJob("sync", n, "f")
  \/ SchedStart
  \/ Advance

SpecCron == InitSched /\ [][NextCron]_vars

(* C17: for every interval of N >= 1 hours that ScheduleJob accepts, any
   two consecutive firings of the job are exactly N hours apart, also
   across midnight and when N does not divide 24 or exceeds 23. *)
C17_FiringsAreNHoursApart ==
  [][\A e \in DOMAIN sched.entries \cap DOMAIN sched'.entries :
       (/\ sched.entries[e].kind = "hours"
        /\ sched.entries[e].last >= 0
        /\ sched'.entries[e].last # sched.entries[e].last) =>
         sched'.entries[e].last - sched.entries[e].last = sched.entries[e].step]_vars

(* C18: after any sequence of ScheduleJob, ScheduleJobWithMinutes and
   RemoveJob calls that return no error, JobCount is the number of distinct
   ids scheduled and not removed since, and each such id has exactly one
   live cron entry, which runs the action most recently supplied for it:
   scheduling an id again replaces its entry. *)
C18_OneEntryPerJob ==
  ~call.failed =>
    /\ DOMAIN sched.jobs = DOMAIN call.want
    /\ JobCount = Cardinality(DOMAIN call.want)
    /\ Cardinality(DOMAIN sched.entries) = JobCount
    /\ \A id \in DOMAIN sched.jobs :
         /\ sched.jobs[id] \in DOMAIN sched.entries
         /\ sched.entries[sched.jobs[id]].action = call.want[id]
         /\ \A other \in DOMAIN sched.jobs :
              sched.jobs[other] = sched.jobs[id] => other = id

(* no call has failed, more entries have been added than there are ids,
   so that an id was scheduled again, two ids are scheduled and the one
   scheduled last runs the action supplied last *)
C18_Witness ==
  /\ ~call.failed
  /\ JobCount = 2
  /\ sched.next = MaxEntries + 1
  /\ \E id \in DOMAIN sched.jobs :
       /\ sched.jobs[id] = MaxEntries
       /\ sched.entries[MaxEntries].action = "g"
       /\ call.want[id] = "g"

---------------------------------------------------------------------------
(* osquery.Client on Linux: one sync run's collection.  snap holds the
   host the run meets (env: the engine binary, the distribution family,
   the browser profile directories), the outcome of each probe on that
   host (out: the probe fails, succeeds with nothing, or succeeds with its
   usual output), and the run: its phase, the snapshot GetSystemInfo
   returned and its error, and whether a snapshot was uploaded. *)

MaxOdd == 2

(* probes that query the engine (RunQuery, queryFirst) *)
Queries ==
  {"osVersion", "hwSerial", "hwModel", "systemInfo", "ufw", "packages",
   "firefoxAddons", "chromeExtensions", "mac"}

(* the informational update probes of each distribution family *)
RpmInfo == {"autoUpdateService", "recentUpdates", "autoUpdateConfig", "recentPackages"}

DebInfo == {"aptConfig", "aptDailyStatus", "aptDailyLogs"}

(* gsettings probes *)
Gsettings ==
  {"downloadUpdates", "idleDelay", "lockDelay", "location", "powerSettings",
   "screenSettings", "sessionSettings"}

(* probes that run a shell command (RunCommand, runGsettingsCommand) *)
Commands ==
  {"firewalld", "clamav", "flatpakSystem", "flatpakUser"}
    \cup RpmInfo \cup DebInfo \cup Gsettings

Probes == Queries \cup Commands

(* the engine binary: "missing" (no path configured and none found),
   "badpath" (a configured path that cannot be executed), "broken" (found
   but cannot be executed), "ok" *)
Engines == {"missing", "badpath", "broken", "ok"}

Hosts == [engine : Engines, rpm : BOOLEAN, firefox : BOOLEAN, chrome : BOOLEAN]

AllValue == [p \in Probes |-> "value"]

(* the subsets of S with at most n elements *)
RECURSIVE SmallSubsets(_, _)
SmallSubsets(S, n) ==
  IF n = 0 THEN {{}}
  ELSE LET prev == SmallSubsets(S, n - 1)
       IN  prev \cup {s \cup {x} : s \in prev, x \in S}

(* the outcome maps in which at most MaxOdd probes fail or return nothing *)
OutcomeMaps ==
  UNION { { [p \in Probes |-> IF p \in odd THEN how[p] ELSE "value"] :
              how \in [odd -> {"fail", "empty"}] } :
          odd \in SmallSubsets(Probes, MaxOdd) }

(* exec.Command(c.binaryPath, ...): a query of an engine that cannot be
   executed fails; a shell command does not use the engine *)
Effective(env, o) ==
  [p \in Probes |-> IF p \in Queries /\ env.engine # "ok" THEN "fail" ELSE o[p]]

(* a faulty variant: the facts after the OS version are gathered only when
   the OS version query did not fail *)
RowFactAfterOsVersion(e, p) ==
  IF e["osVersion"] # "fail" /\ e[p] = "value" THEN "row" ELSE "absent"

(* queryFirst and `err == nil && result != nil` *)
RowFact(e, p) == IF e[p] = "value" THEN "row" ELSE "absent"

(* RunQuery or RunCommand and `err == nil` *)
AnyFact(e, p) == IF e[p] = "fail" THEN "absent" ELSE e[p]

(* RunCommand and `err == nil && output != ""` *)
NonEmptyFact(e, p) == IF e[p] = "value" THEN "value" ELSE "absent"

(* parseGsettingsUint of the output, or the output verbatim *)
DelayFact(e, p) ==
  CASE e[p] = "fail" -> "absent"
    [] e[p] = "empty" -> "verbatim"
    [] e[p] = "value" -> "seconds"

BoardKeys == {"boardSerial", "boardModel", "computerName", "hostName", "localHostName"}

SnapKeys ==
  {"osVersion", "hwSerial", "hwModel", "firewallStatus", "appList",
   "antivirusStatus.clamav", "antivirusStatus.flatpak", "antivirusStatus.passed",
   "browserExtensions.firefox", "browserExtensions.chrome", "macAddress",
   "autoUpdateEnabled", "screenLockStatus.idleDelay", "screenLockStatus.lockDelay",
   "locationServices.gnomeLocation", "screenLockSettings.powerSettings",
   "screenLockSettings.screenSettings", "screenLockSettings.sessionSettings"}
    \cup BoardKeys
    \cup {"gnomeSoftwareDownloadUpdates"} \cup RpmInfo \cup DebInfo

(* the entries of autoUpdateSettings carry the names of their probes, but
   for the gsettings one *)
FlatpakFact(e) ==
  IF e["flatpakSystem"] = "value" THEN "system"
  ELSE IF e["flatpakUser"] = "value" THEN "user"
  ELSE "absent"

(* getLinuxSystemInfo: rawResults, one key for each fact and for each part
   of a fact that is put together from several probes *)
Snapshot(env, o) ==
  LET e == Effective(env, o) IN
  [k \in SnapKeys |->
     CASE k \in {"osVersion", "hwSerial", "hwModel"} -> RowFact(e, k)
       [] k \in BoardKeys -> RowFact(e, "systemInfo")
       [] k = "firewallStatus" ->
            IF env.rpm THEN AnyFact(e, "firewalld") ELSE RowFact(e, "ufw")
       [] k = "appList" -> AnyFact(e, "packages")
       [] k = "antivirusStatus.clamav" -> NonEmptyFact(e, "clamav")
       [] k = "antivirusStatus.flatpak" -> FlatpakFact(e)
       [] k = "antivirusStatus.passed" ->
            IF NonEmptyFact(e, "clamav") # "absent" \/ FlatpakFact(e) # "absent"
              THEN "true" ELSE "false"
       [] k = "browserExtensions.firefox" ->
            IF env.firefox /\ e["firefoxAddons"] = "value" THEN "value" ELSE "empty"
       [] k = "browserExtensions.chrome" ->
            IF env.chrome /\ e["chromeExtensions"] = "value" THEN "value" ELSE "empty"
       [] k = "macAddress" -> RowFact(e, "mac")
       [] k = "autoUpdateEnabled" ->
            IF e["downloadUpdates"] = "value" THEN "passed" ELSE "absent"
       [] k = "gnomeSoftwareDownloadUpdates" -> AnyFact(e, "downloadUpdates")
       [] k \in RpmInfo -> IF env.rpm THEN AnyFact(e, k) ELSE "absent"
       [] k \in DebInfo -> IF env.rpm THEN "absent" ELSE AnyFact(e, k)
       [] k = "screenLockStatus.idleDelay" -> DelayFact(e, "idleDelay")
       [] k = "screenLockStatus.lockDelay" -> DelayFact(e, "lockDelay")
       [] k = "locationServices.gnomeLocation" -> AnyFact(e, "location")
       [] k = "screenLockSettings.powerSettings" -> NonEmptyFact(e, "powerSettings")
       [] k = "screenLockSettings.screenSettings" -> NonEmptyFact(e, "screenSettings")
       [] k = "screenLockSettings.sessionSettings" -> NonEmptyFact(e, "sessionSettings")]

NoRaw == [k \in SnapKeys |-> "none"]

(* the probes whose results getLinuxSystemInfo puts under key k *)
Owners(env, k) ==
  CASE k \in {"osVersion", "hwSerial", "hwModel"} -> {k}
    [] k \in BoardKeys -> {"systemInfo"}
    [] k = "firewallStatus" -> IF env.rpm THEN {"firewalld"} ELSE {"ufw"}
    [] k = "appList" -> {"packages"}
    [] k = "antivirusStatus.clamav" -> {"clamav"}
    [] k = "antivirusStatus.flatpak" -> {"flatpakSystem", "flatpakUser"}
    [] k = "antivirusStatus.passed" -> {"clamav", "flatpakSystem", "flatpakUser"}
    [] k = "browserExtensions.firefox" -> IF env.firefox THEN {"firefoxAddons"} ELSE {}
    [] k = "browserExtensions.chrome" -> IF env.chrome THEN {"chromeExtensions"} ELSE {}
    [] k = "macAddress" -> {"mac"}
    [] k \in {"autoUpdateEnabled", "gnomeSoftwareDownloadUpdates"} -> {"downloadUpdates"}
    [] k \in RpmInfo -> IF env.rpm THEN {k} ELSE {}
    [] k \in DebInfo -> IF env.rpm THEN {} ELSE {k}
    [] k = "screenLockStatus.idleDelay" -> {"idleDelay"}
    [] k = "screenLockStatus.lockDelay" -> {"lockDelay"}
    [] k = "locationServices.gnomeLocation" -> {"location"}
    [] k = "screenLockSettings.powerSettings" -> {"powerSettings"}
    [] k = "screenLockSettings.screenSettings" -> {"screenSettings"}
    [] k = "screenLockSettings.sessionSettings" -> {"sessionSettings"}

CollectEnv ==
  <<live, overlap, cfg, now, daemonUp, proc, tsConfig, result, stopping, call, sched>>

(* runSync up to the collection: NewClientWithVerbose, which looks for the
   binary only when no path is configured and fails when it finds none,
   then SetSyncState(RUNNING) and SetLastSyncAttemptedAt *)
CollectBegin ==
  /\ snap.phase = "new"
  /\ IF snap.env.engine = "missing"
       THEN /\ snap' = [snap EXCEPT !.phase = "done", !.err = TRUE]
            /\ StoreKeep
       ELSE /\ snap' = [snap EXCEPT !.phase = "client"]
            /\ StoreWrite("cli", [mem["cli"] EXCEPT !.SyncState = SyncStateRunning,
                                                   !.LastSyncAttemptedAt = FormatRFC3339(now)],
                          TRUE)
  /\ UNCHANGED CollectEnv

(* osq.GetSystemInfo on Linux: it returns the snapshot and a nil error *)
GetSystemInfo ==
  /\ snap.phase = "client"
  /\ snap' = [snap EXCEPT !.phase = "collected",
                          !.raw = Snapshot(snap.env, snap.out),
                          !.err = FALSE]
  /\ StoreKeep
  /\ UNCHANGED CollectEnv

(* the answers to the upload: refused, or accepted *)
UploadAnswers ==
  {[ok |-> FALSE, lastCheckedAt |-> <<>>, winAv |-> "nil"],
   [ok |-> TRUE, lastCheckedAt |-> FormatRFC3339(now), winAv |-> "nil"]}

(* runSync after the collection: ERROR on a collection error, otherwise
   the upload and SUCCESS, or ERROR when the upload fails *)
CollectEnd ==
  /\ snap.phase = "collected"
  /\ IF snap.err
       THEN /\ snap' = [snap EXCEPT !.phase = "done"]
            /\ StoreWrite("cli", [mem["cli"] EXCEPT !.SyncState = SyncStateError], TRUE)
       ELSE \E resp \in UploadAnswers :
              /\ snap' = [snap EXCEPT !.phase = "done", !.uploaded = TRUE]
              /\ StoreWrite("cli",
                            IF resp.ok
                              THEN [Update(mem["cli"], SyncUpdates(resp))
                                      EXCEPT !.SyncState = SyncStateSuccess]
                              ELSE [mem["cli"] EXCEPT !.SyncState = SyncStateError],
                            TRUE)
  /\ UNCHANGED CollectEnv

InitCollect ==
  /\ stopping = FALSE /\ call = NoCall /\ sched = NoSched
  /\ \E env \in Hosts, o \in OutcomeMaps :
       /\ env.engine # "ok" => o = AllValue
       /\ snap = [phase |-> "new", env |-> env, out |-> o, raw |-> NoRaw,
                  err |-> FALSE, uploaded |-> FALSE]
  /\ live = {"cli"}
  /\ overlap = FALSE
  /\ cfg \in [MinMinutesBetweenSyncs : MinMinutesChoices,
              MinHoursSinceLastSync : MinHoursChoices]
  /\ now = 0
  /\ disk \in {d \in RegisteredDocs : d.LastCheckedAt = <<>>}
  /\ faults = MaxFaults
  /\ mem = [o \in {"cli", "daemon"} |-> IF o = "cli" THEN Unmarshal(disk) ELSE ZeroDoc]
  /\ daemonUp = FALSE
  /\ proc = [p \in Procs |-> IdleProc]
  /\ tsConfig = TsZero
  /\ result = NoResult

NextCollect == CollectBegin \/ GetSystemInfo \/ CollectEnd

SpecCollect == InitCollect /\ [][NextCollect]_vars

(* C19: if the local telemetry-engine binary cannot be located or executed
   at all, snapshot collection fails with an error, the sync run ends in
   state ERROR, and no snapshot is uploaded. *)
C19_EngineUnavailableEndsInError ==
  (snap.phase = "done" /\ snap.env.engine # "ok") =>
    /\ snap.err
    /\ ~snap.uploaded
    /\ Unmarshal(disk).SyncState = SyncStateError

(* the probes that fail on the host of the run *)
FailedProbes == {p \in Probes : Effective(snap.env, snap.out)[p] = "fail"}

(* the same host when no probe fails: each failed probe gives its usual
   output and every other probe the output it gave *)
Healed(o) == [p \in Probes |-> IF o[p] = "fail" THEN "value" ELSE o[p]]

(* a fact that is absent or empty *)
AbsentValues == {"absent", "empty", "false"}

(* C20: for every subset of probes that fail while the engine itself is
   runnable, snapshot collection still returns a snapshot without error;
   each failed probe only makes its own fact absent or empty: a fact none
   of whose probes failed has the value it has when no probe fails, and a
   fact all of whose probes failed is absent or empty. *)
C20_ProbeFailuresAreIsolated ==
  (snap.phase \in {"collected", "done"} /\ snap.env.engine = "ok") =>
    LET failed == FailedProbes
        whole == Snapshot(snap.env, Healed(snap.out))
    IN  /\ ~snap.err
        /\ snap.raw # NoRaw
        /\ \A k \in SnapKeys :
             /\ Owners(snap.env, k) \cap failed = {} => snap.raw[k] = whole[k]
             /\ (Owners(snap.env, k) # {} /\ Owners(snap.env, k) \subseteq failed) =>
                  snap.raw[k] \in AbsentValues

(* a snapshot was returned on a host whose engine runs and where an engine
   query and a shell command failed: their facts are absent and the facts
   of other probes are there *)
C20_Witness ==
  /\ snap.phase = "collected"
  /\ snap.env.engine = "ok"
  /\ ~snap.err
  /\ FailedProbes = {"osVersion", "clamav"}
  /\ snap.raw["osVersion"] = "absent"
  /\ snap.raw["antivirusStatus.clamav"] = "absent"
  /\ snap.raw["hwSerial"] = "row"
  /\ snap.raw["antivirusStatus.flatpak"] = "system"

---------------------------------------------------------------------------
(* Running the engine binary.  A path is the sequence of its components
   below the root; <<>> is "no path configured".  call holds the path the
   client was given and the path that was executed (<<>> when nothing was
   executed). *)

MaxPathLen == 3

(* component names: the parent directory, plain names, the engine's name,
   and a name with a shell metacharacter *)
PathNames == {"..", "bin", "sh", "osqueryi", "a;b"}

MetaNames == {"a;b"}

EnginePaths == UNION {[1 .. n -> PathNames] : n \in 1 .. MaxPathLen}

(* the files of the host *)
HostFiles ==
  {<<"bin", "osqueryi">>, <<"bin", "sh">>, <<"a;b", "osqueryi">>, <<"osqueryi">>}

(* path.normalize, and the kernel's resolution of a path: ".." removes
   the component before it and stays at the root *)
RECURSIVE Normalize(_)
Normalize(p) ==
  IF p = <<>> THEN <<>>
  ELSE LET front == Normalize(SubSeq(p, 1, Len(p) - 1))
           last == p[Len(p)]
       IN  IF last = ".."
             THEN IF front = <<>> THEN <<>> ELSE SubSeq(front, 1, Len(front) - 1)
             ELSE Append(front, last)

Basename(p) == IF p = <<>> THEN "" ELSE p[Len(p)]

(* /[;&|`$(){}[\]<>!]/.test(path) *)
HasMeta(p) == \E i \in DOMAIN p : p[i] \in MetaNames

FileExists(p) == Normalize(p) \in HostFiles

(* validateOsqueryPath: no exception is thrown *)
ValidOsqueryPath(p) ==
  LET normalizedPath == Normalize(p)
  IN  /\ Basename(normalizedPath) = "osqueryi"
      /\ ~HasMeta(normalizedPath)
      /\ normalizedPath \in HostFiles

(* the process started for a path: the file the path resolves to, if any *)
Executed(p) == IF FileExists(p) THEN p ELSE <<>>

(* the places findOsqueryBinary looks in *)
SearchPaths == {<<"bin", "osqueryi">>, <<"osqueryi">>}

(* the packaged location the TypeScript service uses without
   CLI_OSQUERYI_PATH *)
TsDefaultPath == <<"bin", "osqueryi">>

EngineEnv ==
  <<live, overlap, cfg, now, disk, mem, faults, daemonUp, proc, tsConfig, result,
    stopping, sched, snap>>

(* osquery.NewClientWithVerbose(path) and one RunQuery: the binary is
   looked for only when no path is configured; RunQuery executes
   c.binaryPath *)
GoRunQuery ==
  /\ call.op = "configured"
  /\ \E binaryPath \in IF call.path = <<>>
                        THEN {p \in SearchPaths : FileExists(p)}
                        ELSE {call.path} :
       call' = [call EXCEPT !.op = "go.RunQuery", !.ran = Executed(binaryPath),
                            !.err = Executed(binaryPath) = <<>>]
  /\ UNCHANGED EngineEnv

(* CliProcessHelper.runQuery: validateOsqueryPath, then execFile of the
   path as given *)
TsRunQuery ==
  /\ call.op = "configured"
  /\ LET osqueryiBinaryPath == IF call.path = <<>> THEN TsDefaultPath ELSE call.path
     IN  call' = IF ValidOsqueryPath(osqueryiBinaryPath)
                   THEN [call EXCEPT !.op = "ts.runQuery",
                                     !.ran = Executed(osqueryiBinaryPath), !.err = FALSE]
                   ELSE [call EXCEPT !.op = "ts.runQuery", !.err = TRUE]
  /\ UNCHANGED EngineEnv

InitEngine ==
  /\ stopping = FALSE /\ sched = NoSched /\ snap = NoSnap
  /\ \E p \in EnginePaths \cup {<<>>} :
       call = [op |-> "configured", path |-> p, ran |-> <<>>, err |-> FALSE]
  /\ live = {"cli", "ts"}
  /\ overlap = FALSE
  /\ cfg \in [MinMinutesBetweenSyncs : MinMinutesChoices,
              MinHoursSinceLastSync : MinHoursChoices]
  /\ now = 0
  /\ disk = ZeroDoc
  /\ faults = 0
  /\ mem = [o \in {"cli", "daemon"} |-> ZeroDoc]
  /\ daemonUp = FALSE
  /\ proc = [p \in Procs |-> IdleProc]
  /\ tsConfig = TsZero
  /\ result = NoResult

NextEngine == GoRunQuery \/ TsRunQuery

SpecEngine == InitEngine /\ [][NextEngine]_vars

(* C21: the local telemetry-engine binary is never executed unless its
   path has passed validation: the normalized path has the base name
   osqueryi, contains no shell metacharacter and names an existing file.
   This holds for every engine invocation, by the Go client (RunQuery) and
   by the TypeScript helper (runQuery). *)
C21_EngineRunsOnlyValidatedPath ==
  call.ran # <<>> => ValidOsqueryPath(call.ran)

---------------------------------------------------------------------------
(* The desktop session user.  A string is the sequence of its characters. *)

Letters == {"a", "o", "r", "t"}

Digits == {"1"}

Spaces == {" "}

(* the strings the environment variables and logname may hold *)
UserStrings ==
  {<<>>, <<" ">>, <<"r", "o", "o", "t">>, <<"r", "o", "o", "t", " ">>,
   <<"a", "1">>, <<" ", "a", "1", " ">>, <<"a", ";", "t">>, <<"t", "-", "_">>,
   <<"a", " ", "t">>}

RootName == <<"r", "o", "o", "t">>

RECURSIVE TrimLeft(_)
TrimLeft(s) ==
  IF s # <<>> /\ Head(s) \in Spaces THEN TrimLeft(Tail(s)) ELSE s

RECURSIVE TrimRight(_)
TrimRight(s) ==
  IF s # <<>> /\ s[Len(s)] \in Spaces
    THEN TrimRight(SubSeq(s, 1, Len(s) - 1)) ELSE s

(* strings.TrimSpace *)
TrimSpace(s) == TrimRight(TrimLeft(s))

(* a faulty variant: root is accepted *)
isValidSessionUserWithRoot(user) ==
  /\ user # <<>>
  /\ \A i \in DOMAIN user : user[i] \in Letters \cup Digits \cup {"-", "_"}

isValidSessionUser(user) ==
  /\ ~(user = <<>> \/ user = RootName)
  /\ \A i \in DOMAIN user :
       user[i] \in Letters \/ user[i] \in Digits \/ user[i] = "-" \/ user[i] = "_"

(* RunCommand("logname"): an error, or the trimmed output *)
LognameResults ==
  {[err |-> TRUE, output |-> <<>>]}
    \cup {[err |-> FALSE, output |-> TrimSpace(s)] : s \in UserStrings}

SessionHosts ==
  [SUDO_USER : UserStrings, LOGNAME : UserStrings, USER : UserStrings,
   logname : LognameResults]

RECURSIVE FirstValid(_)
FirstValid(candidates) ==
  IF candidates = <<>> THEN <<>>
  ELSE LET candidate == TrimSpace(Head(candidates))
       IN  IF isValidSessionUser(candidate) THEN candidate
           ELSE FirstValid(Tail(candidates))

getDesktopSessionUser(h) ==
  LET fromEnv == FirstValid(<<h.SUDO_USER, h.LOGNAME, h.USER>>)
  IN  IF fromEnv # <<>> THEN fromEnv
      ELSE IF ~h.logname.err /\ isValidSessionUser(TrimSpace(h.logname.output))
             THEN TrimSpace(h.logname.output)
             ELSE <<>>

SessionEnv ==
  <<live, overlap, cfg, now, disk, mem, faults, daemonUp, proc, tsConfig, result,
    stopping, sched, snap>>

(* runGsettingsCommand up to the first command: the session user is
   resolved; with a user the command runs under sudo -u user, without one
   the bare command runs *)
GsettingsBegin ==
  /\ call.op = "host"
  /\ LET user == getDesktopSessionUser(call.host)
     IN  call' = [call EXCEPT !.op = IF user = <<>> THEN "base" ELSE "user",
                              !.user = user,
                              !.ran = IF user = <<>> THEN <<"base">> ELSE <<"user">>]
  /\ UNCHANGED SessionEnv

(* the command under the session user failed: the bare command runs *)
GsettingsFallback ==
  /\ call.op = "user"
  /\ call' = [call EXCEPT !.op = "base", !.ran = Append(call.ran, "base")]
  /\ UNCHANGED SessionEnv

(* the command that ran last returns *)
GsettingsReturn ==
  /\ call.op \in {"user", "base"}
  /\ call' = [call EXCEPT !.op = "returned"]
  /\ UNCHANGED SessionEnv

InitSession ==
  /\ stopping = FALSE /\ sched = NoSched /\ snap = NoSnap
  /\ \E h \in SessionHosts :
       call = [op |-> "host", host |-> h, user |-> <<>>, ran |-> <<>>]
  /\ live = {"cli"}
  /\ overlap = FALSE
  /\ cfg \in [MinMinutesBetweenSyncs : MinMinutesChoices,
              MinHoursSinceLastSync : MinHoursChoices]
  /\ now = 0
  /\ disk = ZeroDoc
  /\ faults = 0
  /\ mem = [o \in {"cli", "daemon"} |-> ZeroDoc]
  /\ daemonUp = FALSE
  /\ proc = [p \in Procs |-> IdleProc]
  /\ tsConfig = TsZero
  /\ result = NoResult

NextSession == GsettingsBegin \/ GsettingsFallback \/ GsettingsReturn

SpecSession == InitSession /\ [][NextSession]_vars

(* the candidates in their order; a failed logname gives none *)
Candidates(h) ==
  <<h.SUDO_USER, h.LOGNAME, h.USER>>
    \o (IF h.logname.err THEN <<>> ELSE <<h.logname.output>>)

SafeChars == {"a", "o", "r", "t", "1", "-", "_"}

(* non-empty, not root, and only letters, digits, '-' and '_' *)
Acceptable(s) ==
  s # <<>> /\ s # <<"r", "o", "o", "t">> /\ \A i \in DOMAIN s : s[i] \in SafeChars

RECURSIVE FirstAcceptable(_)
FirstAcceptable(cs) ==
  IF cs = <<>> THEN <<>>
  ELSE IF Acceptable(Head(cs)) THEN Head(cs) ELSE FirstAcceptable(Tail(cs))

RECURSIVE Trimmed(_)
Trimmed(cs) ==
  IF cs = <<>> THEN <<>>
  ELSE LET s == Head(cs)
           lead == CHOOSE i \in 1 .. Len(s) + 1 :
                     /\ \A j \in 1 .. i - 1 : s[j] = " "
                     /\ i <= Len(s) => s[i] # " "
           trail == CHOOSE i \in 0 .. Len(s) :
                      /\ \A j \in i + 1 .. Len(s) : s[j] = " "
                      /\ i >= 1 => s[i] # " "
       IN  <<IF lead > trail THEN <<>> ELSE SubSeq(s, lead, trail)>> \o Trimmed(Tail(cs))

Resolved == call.op \in {"user", "base", "returned"}

(* C22 as stated: for every combination of SUDO_USER, LOGNAME, USER and
   the logname output, getDesktopSessionUser returns the first candidate
   in that order that is non-empty, is not "root" and consists only of
   letters, digits, '-' and '_', and the empty string if there is none. *)
C22_FirstAcceptableCandidate ==
  Resolved => call.user = FirstAcceptable(Candidates(call.host))

(* C22, amended: getDesktopSessionUser returns the first candidate in the
   order SUDO_USER, LOGNAME, USER, logname output that, with the white
   space around it removed, is non-empty, is not "root" and consists only
   of letters, digits, '-' and '_', and it returns that candidate without
   the white space; the empty string if there is none.  The user name put
   into the shell command is never root and never has a character outside
   letters, digits, '-' and '_', and without a user only the bare command
   runs. *)
C22_FirstAcceptableTrimmedCandidate ==
  Resolved =>
    /\ call.user = FirstAcceptable(Trimmed(Candidates(call.host)))
    /\ call.user # <<>> => Acceptable(call.user)
    /\ (call.user = <<>>) = (Head(call.ran) = "base")

(* a candidate is passed over (root), a later one is taken, and the
   command ran under it *)
C22_Witness ==
  /\ call.op = "returned"
  /\ call.host.SUDO_USER = <<"r", "o", "o", "t">>
  /\ call.host.LOGNAME = <<"a", ";", "t">>
  /\ call.host.USER = <<" ">>
  /\ call.user = <<"a", "1">>
  /\ call.ran = <<"user">>

---------------------------------------------------------------------------
(* The sections of getLinuxSystemInfo that depend on the distribution
   family: firewall, application list, antivirus and update settings.
   snap holds the files of the host, what each probe that ran returned and
   the facts gathered so far. *)

(* the variables of the agent proper, which the component-level
   specifications below leave in their initial state *)
AgentIdle ==
  /\ live = {"cli"}
  /\ overlap = FALSE
  /\ cfg \in [MinMinutesBetweenSyncs : MinMinutesChoices,
              MinHoursSinceLastSync : MinHoursChoices]
  /\ now = 0
  /\ disk = ZeroDoc
  /\ faults = 0
  /\ mem = [o \in {"cli", "daemon"} |-> ZeroDoc]
  /\ daemonUp = FALSE
  /\ proc = [p \in Procs |-> IdleProc]
  /\ tsConfig = TsZero
  /\ result = NoResult

Markers == {"/etc/redhat-release", "/etc/fedora-release", "/usr/bin/dnf", "/usr/bin/yum"}

(* a faulty variant: yum alone does not make an RPM host *)
isRPMBasedDistroWithoutYum(files) ==
  \/ "/etc/redhat-release" \in files
  \/ "/etc/fedora-release" \in files
  \/ "/usr/bin/dnf" \in files

(* os.Stat of each marker in turn *)
isRPMBasedDistro(files) ==
  \/ "/etc/redhat-release" \in files
  \/ "/etc/fedora-release" \in files
  \/ "/usr/bin/dnf" \in files
  \/ "/usr/bin/yum" \in files

RpmProbes == {"firewalld", "rpm_packages", "rpm -q clamav"} \cup RpmInfo

DebProbes == {"ufw", "deb_packages", "dpkg -l clamav"} \cup DebInfo

FlatpakScopes == <<"flatpak --system", "flatpak --user">>

LinuxProbes ==
  RpmProbes \cup DebProbes
    \cup {FlatpakScopes[i] : i \in DOMAIN FlatpakScopes} \cup {"download-updates"}

(* what a probe returns: an error, an empty output, or an output *)
Outcomes == {"fail", "empty", "value"}

(* the download-updates setting: an error, or the output *)
SettingOutcomes == {"fail", "empty", "true", "false"}

NoFacts ==
  [firewallStatus |-> "absent", appList |-> "absent", clamav |-> "absent",
   flatpak |-> "absent", passed |-> FALSE, autoUpdateEnabled |-> "absent",
   autoUpdateSettings |-> {}]

(* the probe ran and returned o *)
Ran(s, probe, o) == [s EXCEPT !.probes[probe] = o]

(* a faulty variant: the flatpak probes do not set the passed flag *)
FlatpakFound(facts, scope) == [facts EXCEPT !.flatpak = scope]

(* the body of the flatpak loop on a non-empty output *)
FlatpakInstalled(facts, scope) == [facts EXCEPT !.flatpak = scope, !.passed = TRUE]

LinuxEnv ==
  <<live, overlap, cfg, now, disk, mem, faults, daemonUp, proc, tsConfig, result,
    stopping, call, sched>>

(* Firewall Status: firewalld by RunCommand and `err == nil`, or UFW by
   queryFirst and `err == nil && result != nil` *)
LinuxFirewall ==
  /\ snap.phase = "start"
  /\ \E o \in Outcomes :
       snap' =
         IF isRPMBasedDistro(snap.files)
           THEN [Ran(snap, "firewalld", o) EXCEPT
                   !.phase = "firewall",
                   !.facts.firewallStatus = IF o # "fail" THEN "firewalld" ELSE "absent"]
           ELSE [Ran(snap, "ufw", o) EXCEPT
                   !.phase = "firewall",
                   !.facts.firewallStatus = IF o = "value" THEN "ufw" ELSE "absent"]
  /\ UNCHANGED LinuxEnv

(* Application List: rpm_packages or deb_packages by RunQuery *)
LinuxAppList ==
  /\ snap.phase = "firewall"
  /\ \E o \in Outcomes :
       snap' =
         IF isRPMBasedDistro(snap.files)
           THEN [Ran(snap, "rpm_packages", o) EXCEPT
                   !.phase = "appList",
                   !.facts.appList = IF o # "fail" THEN "rpm" ELSE "absent"]
           ELSE [Ran(snap, "deb_packages", o) EXCEPT
                   !.phase = "appList",
                   !.facts.appList = IF o # "fail" THEN "deb" ELSE "absent"]
  /\ UNCHANGED LinuxEnv

(* Antivirus Check, the package manager's part: passed starts false and
   becomes true on `err == nil && output != ""` *)
LinuxClamav ==
  /\ snap.phase = "appList"
  /\ \E o \in Outcomes :
       LET probe == IF isRPMBasedDistro(snap.files) THEN "rpm -q clamav"
                    ELSE "dpkg -l clamav"
       IN  snap' = [Ran(snap, probe, o) EXCEPT
                      !.phase = "clamav",
                      !.facts.clamav = IF o = "value" THEN "installed" ELSE "absent",
                      !.facts.passed = (o = "value")]
  /\ UNCHANGED LinuxEnv

(* Antivirus Check, the loop over flatpakScopes, which ends at the first
   scope with a non-empty output *)
LinuxFlatpak ==
  /\ snap.phase = "clamav"
  /\ \E system \in Outcomes, user \in Outcomes :
       snap' =
         IF system = "value"
           THEN [Ran(snap, FlatpakScopes[1], system) EXCEPT
                   !.phase = "antivirus",
                   !.facts = FlatpakInstalled(snap.facts, "system")]
           ELSE [Ran(Ran(snap, FlatpakScopes[1], system), FlatpakScopes[2], user) EXCEPT
                   !.phase = "antivirus",
                   !.facts = IF user = "value" THEN FlatpakInstalled(snap.facts, "user")
                             ELSE snap.facts]
  /\ UNCHANGED LinuxEnv

(* Auto Update Settings, the setting: runGsettingsCommand and
   `output == "true"` *)
LinuxDownloadUpdates ==
  /\ snap.phase = "antivirus"
  /\ \E o \in SettingOutcomes :
       snap' = [Ran(snap, "download-updates", o) EXCEPT
                  !.phase = "setting",
                  !.facts.autoUpdateEnabled = IF o = "true" THEN "passed" ELSE "absent",
                  !.facts.autoUpdateSettings =
                     IF o # "fail" THEN {"gnomeSoftwareDownloadUpdates"} ELSE {}]
  /\ UNCHANGED LinuxEnv

(* Auto Update Settings, the informational probes of the family, each
   added on `err == nil` *)
LinuxUpdateInfo ==
  /\ snap.phase = "setting"
  /\ LET info == IF isRPMBasedDistro(snap.files) THEN RpmInfo ELSE DebInfo
     IN  \E good \in SUBSET info :
           snap' = [snap EXCEPT
                      !.phase = "done",
                      !.probes = [p \in LinuxProbes |->
                                    IF p \in good THEN "value"
                                    ELSE IF p \in info THEN "fail"
                                    ELSE snap.probes[p]],
                      !.facts.autoUpdateSettings = @ \cup good]
  /\ UNCHANGED LinuxEnv

InitLinux ==
  /\ stopping = FALSE /\ call = NoCall /\ sched = NoSched
  /\ \E files \in SUBSET Markers :
       snap = [phase |-> "start", files |-> files,
               probes |-> [p \in LinuxProbes |-> "notrun"], facts |-> NoFacts]
  /\ AgentIdle

NextLinux ==
  \/ LinuxFirewall \/ LinuxAppList \/ LinuxClamav \/ LinuxFlatpak
  \/ LinuxDownloadUpdates \/ LinuxUpdateInfo

SpecLinux == InitLinux /\ [][NextLinux]_vars

(* the probes that look for an installed antivirus product *)
ProductProbes == {"rpm -q clamav", "dpkg -l clamav", "flatpak --system", "flatpak --user"}

(* C23: on Linux the antivirus passed flag is true if and only if at least
   one of the installed-product probes (clamav from the package manager,
   flatpak system scope, flatpak user scope) succeeded with a non-empty
   output; it is false when every probe fails or returns empty output. *)
C23_AntivirusPassedIffAProbeFound ==
  snap.phase \in {"antivirus", "setting", "done"} =>
    (snap.facts.passed <=> \E p \in ProductProbes : snap.probes[p] = "value")

(* the flag is true by the user-scope flatpak probe alone *)
C23_Witness ==
  /\ snap.phase = "done"
  /\ snap.facts.passed
  /\ snap.probes["flatpak --user"] = "value"
  /\ \A p \in ProductProbes \ {"flatpak --user"} : snap.probes[p] \in {"fail", "empty", "notrun"}
  /\ \E p \in ProductProbes : snap.probes[p] = "fail"
  /\ \E p \in ProductProbes : snap.probes[p] = "empty"

(* the probe set each section that ran took its probes from *)
FamiliesUsed ==
  {IF p \in RpmProbes THEN "rpm" ELSE "deb" :
     p \in {q \in RpmProbes \cup DebProbes : snap.probes[q] # "notrun"}}

(* C25: the RPM-family probe set is selected if and only if at least one of
   the four markers exists (/etc/redhat-release, /etc/fedora-release,
   /usr/bin/dnf, /usr/bin/yum), otherwise the Debian-family set; the
   firewall, application-list, antivirus and update-diagnostic probes of
   one collection all follow that one choice. *)
C25_OneFamilyFromMarkers ==
  /\ FamiliesUsed \subseteq {IF snap.files # {} THEN "rpm" ELSE "deb"}
  /\ snap.phase = "done" =>
       \A section \in {{"firewalld", "ufw"}, {"rpm_packages", "deb_packages"},
                       {"rpm -q clamav", "dpkg -l clamav"}, RpmInfo \cup DebInfo} :
         \E p \in section : snap.probes[p] # "notrun"

(* a collection on a host with yum alone has run every section with the
   RPM probes *)
C25_Witness ==
  /\ snap.phase = "done"
  /\ snap.files = {"/usr/bin/yum"}
  /\ \A p \in RpmProbes : snap.probes[p] # "notrun"
  /\ \A p \in DebProbes : snap.probes[p] = "notrun"

---------------------------------------------------------------------------
(* the step is the unregister command of the Go agent, or the disconnect
   command of the TypeScript agent, clearing the store *)
ClearStep == result' # result /\ result'.cmd = "unregister"

(* a non-empty UUID of the Go store is changed by Clear alone *)
GoUUIDKept ==
  [][disk.UUID # "" /\ disk'.UUID # disk.UUID => ClearStep]_vars

(* C26: the correlation UUID is generated once: when the store's UUID is
   non-empty, no sequence of register attempts, syncs or API requests
   changes it; only Clear resets it.  (Every request sent while it is
   non-empty carries it as the correlation header.) *)
C26_OnlyClearChangesUUID ==
  [][/\ disk.UUID # "" /\ disk'.UUID # disk.UUID => ClearStep
     /\ tsConfig.uuid # "" /\ tsConfig'.uuid # tsConfig.uuid => ClearStep]_vars

---------------------------------------------------------------------------
(* The manual-run flag of the uploaded snapshot.  snap holds the trigger of
   the run, the QueryResult and the body of the sync request. *)

(* runSync with and without --force, and the daemon's performSync *)
SyncTriggers ==
  {[func |-> "runSync", forceSync |-> TRUE], [func |-> "runSync", forceSync |-> FALSE],
   [func |-> "performSync", forceSync |-> FALSE]}

NoQueryResult == [ManualRun |-> FALSE, RawQueryResults |-> "nil"]

NoBody == [manualRun |-> "none", rawQueryResults |-> "none"]

(* a faulty variant: the flag is always set *)
MarkAlways(q, trigger) == [q EXCEPT !.ManualRun = TRUE]

(* queryResult.ManualRun = forceSync in runSync; performSync leaves the
   QueryResult as GetSystemInfo returned it *)
MarkManualRun(q, trigger) ==
  IF trigger.func = "runSync" THEN [q EXCEPT !.ManualRun = trigger.forceSync] ELSE q

(* json.Marshal of the QueryResult: manualRun has omitempty *)
MarshalQueryResult(q) ==
  [manualRun |-> IF q.ManualRun THEN "true" ELSE "absent",
   rawQueryResults |-> q.RawQueryResults]

(* the flag the service reads from the body *)
DecodeManualRun(body) == body.manualRun = "true"

ManualEnv ==
  <<live, overlap, cfg, now, disk, mem, faults, daemonUp, proc, tsConfig, result,
    stopping, call, sched>>

(* osquery.NewClient: it fails when no binary is configured or found *)
ManualClient ==
  /\ snap.phase = "new"
  /\ snap' = [snap EXCEPT !.phase = IF snap.env.engine = "missing" THEN "failed"
                                    ELSE "client"]
  /\ UNCHANGED ManualEnv

(* osq.GetSystemInfo: the QueryResult is built without ManualRun *)
ManualCollect ==
  /\ snap.phase = "client"
  /\ snap' = [snap EXCEPT !.phase = "collected",
                          !.q = [ManualRun |-> FALSE,
                                 RawQueryResults |-> IF snap.env.rpm THEN "rpm" ELSE "deb"]]
  /\ UNCHANGED ManualEnv

(* the flag is set, and apiClient.Sync marshals the QueryResult *)
ManualUpload ==
  /\ snap.phase = "collected"
  /\ LET q == MarkManualRun(snap.q, snap.trigger)
     IN  snap' = [snap EXCEPT !.phase = "uploaded", !.q = q,
                              !.body = MarshalQueryResult(q)]
  /\ UNCHANGED ManualEnv

InitManual ==
  /\ stopping = FALSE /\ call = NoCall /\ sched = NoSched
  /\ \E env \in Hosts, trigger \in SyncTriggers :
       snap = [phase |-> "new", env |-> env, trigger |-> trigger,
               q |-> NoQueryResult, body |-> NoBody]
  /\ AgentIdle

NextManual == ManualClient \/ ManualCollect \/ ManualUpload

SpecManual == InitManual /\ [][NextManual]_vars

(* C27: the uploaded snapshot's manual-run flag equals the trigger's forced
   flag: true for runSync --force, false for a non-forced runSync and for
   every daemon-scheduled sync. *)
C27_ManualRunIsForced ==
  snap.phase = "uploaded" =>
    /\ DecodeManualRun(snap.body) = snap.trigger.forceSync
    /\ snap.trigger.func = "performSync" => ~DecodeManualRun(snap.body)

(* a forced runSync has uploaded a snapshot with the flag *)
C27_Witness ==
  /\ snap.phase = "uploaded"
  /\ snap.trigger = [func |-> "runSync", forceSync |-> TRUE]
  /\ snap.body.manualRun = "true"

---------------------------------------------------------------------------
(* The minutes throttle of runSync, with the clock in steps of
   SecondsPerStep seconds.  call holds the stored last-attempt time, the
   clock, the configured minimum and what runSync reported. *)

MaxClock == 8

MaxMinMinutes == 3

SecondsPerStep == 30

SecondsPerMinute == 60

(* LastSyncAttemptedAt: empty, not an RFC3339 time, or a time *)
AttemptStamps ==
  {[kind |-> "empty", at |-> 0], [kind |-> "invalid", at |-> 0]}
    \cup [kind : {"time"}, at : 0 .. MaxClock]

(* a faulty variant: a store without a last attempt counts as attempted
   just now *)
MinutesSinceOrZero(stamp, clock) ==
  IF stamp.kind # "time" THEN 0
  ELSE TruncDiv((clock - stamp.at) * SecondsPerStep, SecondsPerMinute)

(* MinutesSinceLastAttempt: -1 without a time that parses, otherwise
   int(time.Since(lastAttempt).Minutes()) *)
MinutesSince(stamp, clock) ==
  IF stamp.kind # "time" THEN -1
  ELSE TruncDiv((clock - stamp.at) * SecondsPerStep, SecondsPerMinute)

(* "Wait %d more minutes" *)
RemainingWait(minMinutes, minutes) == minMinutes - minutes

ThrottleEnv ==
  <<live, overlap, cfg, now, disk, mem, faults, daemonUp, proc, tsConfig, result,
    stopping, sched, snap>>

(* time passes before the command is given *)
ThrottleTick ==
  /\ call.op = "idle"
  /\ call.clock < MaxClock
  /\ call' = [call EXCEPT !.clock = @ + 1]
  /\ UNCHANGED ThrottleEnv

(* runSync's throttle block: skipped with --force; otherwise the minutes
   test, which returns the error with the remaining wait *)
ThrottleCheck(forceSync) ==
  /\ call.op = "idle"
  /\ LET minutesSinceLastAttempt == MinutesSince(call.stamp, call.clock)
     IN  call' =
           IF ~forceSync /\ TooSoon(minutesSinceLastAttempt, call.minMinutes)
             THEN [call EXCEPT !.op = "tooSoon", !.forceSync = forceSync,
                               !.minutes = minutesSinceLastAttempt,
                               !.wait = RemainingWait(call.minMinutes,
                                                      minutesSinceLastAttempt)]
             ELSE [call EXCEPT !.op = "passed", !.forceSync = forceSync,
                               !.minutes = minutesSinceLastAttempt]
  /\ UNCHANGED ThrottleEnv

InitThrottle ==
  /\ stopping = FALSE /\ sched = NoSched /\ snap = NoSnap
  /\ \E stamp \in AttemptStamps, m \in 0 .. MaxMinMinutes :
       call = [op |-> "idle", stamp |-> stamp, clock |-> 0, minMinutes |-> m,
               forceSync |-> FALSE, minutes |-> 0, wait |-> 0]
  /\ AgentIdle

NextThrottle == ThrottleTick \/ \E f \in BOOLEAN : ThrottleCheck(f)

SpecThrottle == InitThrottle /\ [][NextThrottle]_vars

(* the seconds from the stored attempt to the clock *)
ElapsedSeconds == (call.clock - call.stamp.at) * SecondsPerStep

(* C28: when a non-forced runSync is skipped by the minutes throttle, the
   reported remaining wait is MinMinutesBetweenSyncs minus the whole
   minutes elapsed since the last attempt and always lies in
   1..MinMinutesBetweenSyncs; with no last-attempt timestamp
   (MinutesSinceLastAttempt = -1) the minutes throttle never applies. *)
C28_RemainingWaitInRange ==
  /\ call.op = "tooSoon" =>
       /\ ~call.forceSync
       /\ call.stamp.kind = "time"
       /\ call.wait \in 1 .. call.minMinutes
       /\ ElapsedSeconds >= 0 =>
            \E whole \in 0 .. MaxClock :
              /\ whole * SecondsPerMinute <= ElapsedSeconds
              /\ ElapsedSeconds < (whole + 1) * SecondsPerMinute
              /\ call.wait = call.minMinutes - whole
  /\ call.op = "passed" /\ call.stamp.kind # "time" => call.minutes = -1
  /\ call.op # "idle" /\ call.stamp.kind # "time" => call.op = "passed"

(* a skip one and a half minutes after the attempt, with one minute of a
   minimum of two left to wait *)
C28_Witness ==
  /\ call.op = "tooSoon"
  /\ call.minMinutes = 2
  /\ call.clock - call.stamp.at = 3
  /\ call.wait = 1

---------------------------------------------------------------------------
(* Error responses of the API.  call holds the response and the error the
   client returned for it. *)

StatusOK == 200

StatusCreated == 201

StatusUnauthorized == 401

(* the statuses of the responses: the two the client accepts, 401 and two
   other refusals *)
Statuses == {StatusOK, StatusCreated, StatusUnauthorized, 400, 500}

(* the codes of handleErrorResponse's switch *)
KnownCodes ==
  {"MAGIC_TOKEN_NOT_FOUND", "REFRESH_TOKEN_NOT_FOUND", "TOKEN_EXPIRED",
   "ACCOUNT_PENDING", "ACCOUNT_MAINTENANCE", "ACCOUNT_ADMIN_DISABLED",
   "ACCOUNT_NON_PAYMENT", "ACCOUNT_USER_DELETED"}

(* the body of a response: text that is not a JSON object (an empty body,
   a proxy's page), or an ErrorResponse *)
Bodies ==
  [json : {FALSE}, code : {""}, message : {""}, secondaryMessage : {""}]
    \cup [json : {TRUE}, code : KnownCodes \cup {"", "SOMETHING_ELSE"},
          message : {"", "m"}, secondaryMessage : {"", "s"}]

Responses == [status : Statuses, body : Bodies]

(* the error of each known code; the two disabled-account codes share one *)
CodeKind(code) ==
  IF code \in {"ACCOUNT_ADMIN_DISABLED", "ACCOUNT_NON_PAYMENT"} THEN "ACCOUNT_DISABLED"
  ELSE code

(* an error: its kind, and whether its text shows the status and the body *)
ApiError(kind, status, body) == [kind |-> kind, status |-> status, body |-> body]

NoError == ApiError("none", FALSE, FALSE)

handleErrorResponse(resp) ==
  IF ~resp.body.json THEN ApiError("generic", TRUE, TRUE)
  ELSE IF resp.body.code \in KnownCodes
    THEN ApiError(CodeKind(resp.body.code), FALSE, FALSE)
  ELSE IF resp.status = StatusUnauthorized THEN ApiError("unauthorized", FALSE, FALSE)
  ELSE IF resp.body.message # "" THEN ApiError("message", FALSE, FALSE)
  ELSE ApiError("generic", TRUE, FALSE)

ErrorsEnv ==
  <<live, overlap, cfg, now, disk, mem, faults, daemonUp, proc, tsConfig, result,
    stopping, sched, snap>>

(* a request whose response has the status 200 or 201 *)
ResponseAccepted ==
  /\ call.op = "response"
  /\ call.resp.status \in {StatusOK, StatusCreated}
  /\ call' = [call EXCEPT !.op = "accepted"]
  /\ UNCHANGED ErrorsEnv

(* a request whose response has another status: handleErrorResponse *)
ResponseRefused ==
  /\ call.op = "response"
  /\ call.resp.status \notin {StatusOK, StatusCreated}
  /\ call' = [call EXCEPT !.op = "refused", !.err = handleErrorResponse(call.resp)]
  /\ UNCHANGED ErrorsEnv

InitErrors ==
  /\ stopping = FALSE /\ sched = NoSched /\ snap = NoSnap
  /\ \E resp \in Responses : call = [op |-> "response", resp |-> resp, err |-> NoError]
  /\ AgentIdle

NextErrors == ResponseAccepted \/ ResponseRefused

SpecErrors == InitErrors /\ [][NextErrors]_vars

(* C29: error response classification follows a fixed precedence: a known
   code in a structured error body decides the kind of error whatever the
   HTTP status; only without a known code is the HTTP status (401) used;
   and only after that is a generic message containing the raw status and
   body produced. *)
C29_CodeThenStatusThenGeneric ==
  call.op = "refused" =>
    LET known == call.resp.body.json /\ call.resp.body.code \in KnownCodes
    IN  /\ known => call.err.kind \in KnownCodes \cup {"ACCOUNT_DISABLED"}
        /\ ~known /\ call.resp.status = StatusUnauthorized
             => call.err.kind = "unauthorized"
        /\ ~known /\ call.resp.status # StatusUnauthorized
             => call.err = ApiError("generic", TRUE, TRUE)

---------------------------------------------------------------------------
(* The endpoint of the API requests.  call holds the configuration file,
   the region and the token of the store, and the request sent last. *)

KnownRegions == {"NA", "EU", "APAC"}

KnownEnvs == {"LOCAL", "DEV", "QA", "PROD"}

(* what a configuration file may hold: the known values and others *)
FileRegions == KnownRegions \cup {"", "LATAM"}

FileEnvs == KnownEnvs \cup {"STAGE"}

(* the apiURLs table *)
ApiURLs(env, region) ==
  CASE env = "LOCAL" ->
         (CASE region = "NA" -> "http://localhost:3000"
            [] region = "EU" -> "http://localhost:3001"
            [] region = "APAC" -> "http://localhost:3002")
    [] env = "DEV" -> "https://agent.dev.drata.com"
    [] env = "QA" -> "https://agent.qa.drata.com"
    [] env = "PROD" ->
         (CASE region = "NA" -> "https://agent.drata.com"
            [] region = "EU" -> "https://agent.eu.drata.com"
            [] region = "APAC" -> "https://agent.apac.drata.com")

APIHostURL(env, region) ==
  IF env \in KnownEnvs /\ region \in KnownRegions THEN ApiURLs(env, region)
  ELSE ApiURLs("PROD", "NA")

(* a faulty variant: the configured region wins *)
RequestRegionFromConfig(storeRegion, configRegion) ==
  IF configRegion # "" THEN configRegion ELSE storeRegion

(* doRequest: the region of the store, or the configured one *)
RequestRegion(storeRegion, configRegion) ==
  IF storeRegion = "" THEN configRegion ELSE storeRegion

doRequest(c, path) ==
  [path |-> path,
   url |-> APIHostURL(c.config.TargetEnv, RequestRegion(c.store.Region, c.config.Region))]

NoRequest == [path |-> "none", url |-> "none"]

RequestEnv ==
  <<live, overlap, cfg, now, disk, mem, faults, daemonUp, proc, tsConfig, result,
    stopping, sched, snap>>

(* drata-agent config set region / target_env: ParseRegion and
   ParseTargetEnv take the known values only *)
ConfigSet ==
  /\ \/ \E r \in KnownRegions : call' = [call EXCEPT !.config.Region = r]
     \/ \E e \in KnownEnvs : call' = [call EXCEPT !.config.TargetEnv = e]
  /\ UNCHANGED RequestEnv

(* drata-agent register --region r: refused when registered; otherwise
   SetRegion(r), then the login request, whose token is stored *)
RequestRegister(r) ==
  /\ ~call.store.registered
  /\ \E ok \in BOOLEAN :
       LET c == [call EXCEPT !.store.Region = r, !.store.registered = ok,
                             !.registeredAs = IF ok THEN r ELSE ""]
       IN  call' = [c EXCEPT !.sent = doRequest(c, "/auth")]
  /\ UNCHANGED RequestEnv

(* a sync of a registered agent: its requests *)
RequestSync ==
  /\ call.store.registered
  /\ \E path \in {"/init", "/sync"} : call' = [call EXCEPT !.sent = doRequest(call, path)]
  /\ UNCHANGED RequestEnv

(* drata-agent unregister: Clear *)
RequestUnregister ==
  /\ call.store.registered
  /\ call' = [call EXCEPT !.store = [Region |-> "", registered |-> FALSE],
                          !.registeredAs = "", !.sent = NoRequest]
  /\ UNCHANGED RequestEnv

InitRequest ==
  /\ stopping = FALSE /\ sched = NoSched /\ snap = NoSnap
  /\ \E r \in FileRegions, e \in FileEnvs :
       call = [op |-> "requests", config |-> [Region |-> r, TargetEnv |-> e],
               store |-> [Region |-> "", registered |-> FALSE],
               registeredAs |-> "", sent |-> NoRequest]
  /\ AgentIdle

NextRequest ==
  \/ ConfigSet
  \/ \E r \in KnownRegions : RequestRegister(r)
  \/ RequestSync
  \/ RequestUnregister

SpecRequest == InitRequest /\ [][NextRequest]_vars

(* the endpoints TestAPIHostURL expects *)
ExpectedHosts ==
  {<<"PROD", "NA", "https://agent.drata.com">>,
   <<"PROD", "EU", "https://agent.eu.drata.com">>,
   <<"PROD", "APAC", "https://agent.apac.drata.com">>,
   <<"DEV", "NA", "https://agent.dev.drata.com">>,
   <<"LOCAL", "NA", "http://localhost:3000">>,
   <<"LOCAL", "EU", "http://localhost:3001">>}

(* this step sends a request with the region r *)
SendsWith(r) ==
  /\ call'.sent # NoRequest
  /\ call'.sent.url =
       IF call'.config.TargetEnv \in KnownEnvs /\ r \in KnownRegions
         THEN ApiURLs(call'.config.TargetEnv, r)
         ELSE "https://agent.drata.com"
  /\ \A h \in ExpectedHosts :
       call'.config.TargetEnv = h[1] /\ r = h[2] => call'.sent.url = h[3]

(* C30: every API request is sent to APIHostURL(targetEnv, R), where R is
   the region persisted in the store when it is non-empty and the
   configured region otherwise; APIHostURL returns the table entry for
   every known (environment, region) pair and the PROD/NA URL for an
   unknown pair; after register --region R all later requests go to R's
   endpoint whatever the configuration file says. *)
C30_RequestsGoToStoredRegion ==
  [][call'.sent # call.sent /\ call'.sent # NoRequest =>
       /\ SendsWith(IF call'.store.Region # "" THEN call'.store.Region
                    ELSE call'.config.Region)
       /\ call'.registeredAs # "" => SendsWith(call'.registeredAs)]_vars

(* an agent registered in the EU, with a configuration file that says NA,
   has sent a sync request to the EU endpoint *)
C30_Witness ==
  /\ call.op = "requests"
  /\ call.registeredAs = "EU"
  /\ call.config = [Region |-> "NA", TargetEnv |-> "PROD"]
  /\ call.sent = [path |-> "/sync", url |-> "https://agent.eu.drata.com"]

---------------------------------------------------------------------------
(* The auto-update section of getLinuxSystemInfo in its two versions.
   snap holds two collections by one build of the agent on hosts where the
   download-updates setting reads the same, and what each gathered. *)

(* "gsettings": the version that asks gsettings on every host;
   "distro": the version that asks gsettings on RPM hosts and the engine
   for /etc/apt/apt.conf.d/50unattended-upgrades on the others *)
Versions == {"gsettings", "distro"}

(* the engine's count of the rows of the file table: an error, or the
   row with its count *)
CountOutcomes == {"fail", "0", "1"}

(* the probes of the family that succeeded *)
InfoGathered(h) == h.info \cap (IF h.rpm THEN RpmInfo ELSE DebInfo)

(* a host: its family, the informational probes that succeed on it (those
   of its family) and the count of the unattended-upgrades file (asked
   for on a Debian host only) *)
UpdateHosts ==
  {h \in [rpm : BOOLEAN, info : SUBSET (RpmInfo \cup DebInfo),
          unattended : CountOutcomes] :
     /\ h.info = InfoGathered(h)
     /\ h.rpm => h.unattended = "fail"}

(* the setting's entry of autoUpdateSettings *)
SettingGathered(setting) ==
  IF setting # "fail" THEN {"gnomeSoftwareDownloadUpdates"} ELSE {}

(* rawResults["autoUpdateEnabled"] and rawResults["autoUpdateSettings"] *)
AutoUpdate(version, h, setting) ==
  IF version = "gsettings"
    THEN [autoUpdateEnabled |-> IF setting = "true" THEN "passed: 1" ELSE "absent",
          autoUpdateSettings |-> SettingGathered(setting) \cup InfoGathered(h)]
  ELSE IF h.rpm
    THEN [autoUpdateEnabled |-> IF setting = "true" THEN "passed: 1" ELSE "absent",
          autoUpdateSettings |-> SettingGathered(setting) \cup InfoGathered(h)]
  ELSE [autoUpdateEnabled |-> CASE h.unattended = "fail" -> "absent"
                                [] h.unattended = "0" -> "passed: 0"
                                [] h.unattended = "1" -> "passed: 1",
        autoUpdateSettings |-> InfoGathered(h)]

NotGathered == [autoUpdateEnabled |-> "none", autoUpdateSettings |-> {}]

UpdatesEnv ==
  <<live, overlap, cfg, now, disk, mem, faults, daemonUp, proc, tsConfig, result,
    stopping, call, sched>>

(* the first collection *)
CollectFirst ==
  /\ snap.phase = "start"
  /\ \E h \in UpdateHosts :
       snap' = [snap EXCEPT !.phase = "first", !.hosts[1] = h,
                            !.raw[1] = AutoUpdate(snap.version, h, snap.setting)]
  /\ UNCHANGED UpdatesEnv

(* the second collection *)
CollectSecond ==
  /\ snap.phase = "first"
  /\ \E h \in UpdateHosts :
       snap' = [snap EXCEPT !.phase = "second", !.hosts[2] = h,
                            !.raw[2] = AutoUpdate(snap.version, h, snap.setting)]
  /\ UNCHANGED UpdatesEnv

InitUpdates ==
  /\ stopping = FALSE /\ call = NoCall /\ sched = NoSched
  /\ \E version \in Versions, setting \in SettingOutcomes :
       snap = [phase |-> "start", version |-> version, setting |-> setting,
               hosts |-> <<[rpm |-> FALSE, info |-> {}, unattended |-> "fail"],
                           [rpm |-> FALSE, info |-> {}, unattended |-> "fail"]>>,
               raw |-> <<NotGathered, NotGathered>>]
  /\ AgentIdle

NextUpdates == CollectFirst \/ CollectSecond

SpecUpdates == InitUpdates /\ [][NextUpdates]_vars

(* the version that asks gsettings on every host gives both collections
   the same flag *)
GsettingsVersionAgrees ==
  snap.phase = "second" /\ snap.version = "gsettings" =>
    snap.raw[1].autoUpdateEnabled = snap.raw[2].autoUpdateEnabled

(* C24: the auto-update passed flag depends only on the authoritative
   gsettings download-updates probe: two collections that agree on that
   probe's outcome yield the same autoUpdateEnabled, whatever the
   diagnostic probes return. *)
C24_AutoUpdateFromSettingOnly ==
  snap.phase = "second" =>
    snap.raw[1].autoUpdateEnabled = snap.raw[2].autoUpdateEnabled

---------------------------------------------------------------------------
(* C31: the scheduler is not running when created, is running after Start
   and is not running after Stop; Start on a running scheduler is a no-op
   that does not start the underlying cron a second time, and Start and
   Stop never change the set of scheduled jobs. *)
C31_StartStopLifecycle ==
  /\ ~sched.running /\ JobCount = 0
  /\ [][/\ SchedStart =>
            /\ sched'.running
            /\ sched'.jobs = sched.jobs /\ sched'.entries = sched.entries
            /\ call'.cron = (IF sched.running THEN "none" ELSE "Start")
            /\ (sched.running => sched' = sched)
        /\ SchedStop =>
            /\ ~sched'.running
            /\ sched'.jobs = sched.jobs /\ sched'.entries = sched.entries]_vars

(* Start was called on a running scheduler that has a job *)
C31_Witness ==
  /\ call.op = "Start"
  /\ call.cron = "none"
  /\ sched.running
  /\ JobCount = 1

---------------------------------------------------------------------------
(* GetNextRun: the entry's next time when s.jobs has the id and the cron
   still holds the entry (entry.ID # 0), nil otherwise *)
GetNextRun(s, id) ==
  IF id \in DOMAIN s.jobs
  THEN IF s.jobs[id] \in DOMAIN s.entries THEN "next" ELSE "nil"
  ELSE "nil"

(* C38: a ScheduleJob or ScheduleJobWithMinutes call that returns an error
   leaves the scheduler unchanged: a job scheduled before under the same
   id is still installed in the cron, and JobCount and GetNextRun still
   describe a live entry for it. *)
C38_FailedScheduleChangesNothing ==
  [][call'.op = "Schedule" /\ call'.err =>
       /\ sched' = sched
       /\ \A id \in DOMAIN sched'.jobs : GetNextRun(sched', id) # "nil"]_vars

---------------------------------------------------------------------------
(* Stop's returned context and the goroutine that waits on it
   (ctx := sched.Stop(); <-ctx.Done()).  snap holds the context the last
   Stop returned, whether the caller is blocked on it, and the number of
   cron-started jobs still running. *)
MaxRunning == 2

WaitEnv ==
  <<live, overlap, cfg, now, disk, mem, faults, daemonUp, proc, tsConfig, result,
    stopping>>

(* the context Stop returns: the cron's stop context when the scheduler
   was running, context.Background() otherwise *)
StopContext(s) == IF s.running THEN "cron" ELSE "background"

(* ctx.Done() is ready: the cron's context is cancelled once its running
   jobs have returned; Background is never cancelled *)
ContextDone(ctx, running) == ctx = "cron" /\ running = 0

(* ctx := sched.Stop(), then the caller blocks on <-ctx.Done() *)
StopAndWait ==
  /\ ~snap.waiting
  /\ snap' = [snap EXCEPT !.ctx = StopContext(sched), !.waiting = TRUE]
  /\ sched' = IF sched.running THEN Stopped(sched) ELSE sched
  /\ call' = [call EXCEPT !.op = "Stop", !.err = FALSE,
                          !.cron = IF sched.running THEN "Stop" ELSE "none"]
  /\ UNCHANGED WaitEnv

(* <-ctx.Done() returns *)
WaitReturn ==
  /\ snap.waiting
  /\ ContextDone(snap.ctx, snap.running)
  /\ snap' = [snap EXCEPT !.waiting = FALSE]
  /\ UNCHANGED <<WaitEnv, sched, call>>

(* the running cron starts an entry's function in its own goroutine *)
JobBegin ==
  /\ sched.running
  /\ DOMAIN sched.entries # {}
  /\ snap.running < MaxRunning
  /\ snap' = [snap EXCEPT !.running = @ + 1]
  /\ UNCHANGED <<WaitEnv, sched, call>>

(* a job's function returns *)
JobEnd ==
  /\ snap.running > 0
  /\ snap' = [snap EXCEPT !.running = @ - 1]
  /\ UNCHANGED <<WaitEnv, sched, call>>

InitWait ==
  /\ AgentIdle
  /\ stopping = FALSE
  /\ sched = NewScheduler
  /\ call = [op |-> "NewScheduler", err |-> FALSE, failed |-> FALSE, want |-> EmptyMap,
             cron |-> "none"]
  /\ snap = [ctx |-> "none", waiting |-> FALSE, running |-> 0]

NextWait ==
  \/ ~snap.waiting /\ \E id \in JobIds, n \in IntervalChoices, a \in JobActions :
                         ScheduleJob(id, n, a)
  \/ ~snap.waiting /\ SchedStart
  \/ StopAndWait
  \/ WaitReturn
  \/ JobBegin
  \/ JobEnd

(* jobs return, and a receive on a ready channel proceeds *)
SpecWait ==
  InitWait /\ [][NextWait]_vars /\ WF_vars(JobEnd) /\ WF_vars(WaitReturn)

(* C39: waiting on the context returned by Stop always terminates, in
   every scheduler state, including never started and already stopped:
   the context becomes done once no scheduler-started job is running. *)
C39_StopWaitTerminates == snap.waiting ~> ~snap.waiting

(* the wait does terminate when Stop was called on a running scheduler *)
StopWaitOfRunningTerminates ==
  (snap.waiting /\ snap.ctx = "cron") ~> ~snap.waiting

---------------------------------------------------------------------------
(* a run that has passed the RUNNING test, has set RUNNING and has not
   yet set SUCCESS or ERROR *)
InPipeline(p) ==
  proc[p].pc \in {"setAttempt", "init", "collect", "upload", "setSuccess", "setError"}

(* C32: within one daemon process at most one sync pipeline executes at
   any time: for every interleaving of the delayed initial run and the
   cron ticks, never two runs have both passed the RUNNING test and are
   both between setting RUNNING and setting SUCCESS or ERROR. *)
C32_OnePipelineAtATime ==
  ~(\E p, q \in DaemonProcs : p # q /\ InPipeline(p) /\ InPipeline(q))

---------------------------------------------------------------------------
(* the moves of the persisted sync state the claim allows; the absent
   field is NEVER *)
SyncStateMoves ==
  { <<"", SyncStateRunning>>,
    <<SyncStateRunning, SyncStateSuccess>>, <<SyncStateRunning, SyncStateError>>,
    <<SyncStateSuccess, SyncStateRunning>>, <<SyncStateError, SyncStateRunning>> }

(* C34: over any sequence and interleaving of sync triggers on one store,
   without Clear, the persisted sync state changes only along
   NEVER -> RUNNING, RUNNING -> SUCCESS, RUNNING -> ERROR,
   SUCCESS -> RUNNING and ERROR -> RUNNING: never directly between
   SUCCESS and ERROR, never from NEVER to SUCCESS or ERROR, and never to
   UNKNOWN. *)
C34_SyncStateMoves ==
  [][(disk'.SyncState # disk.SyncState /\ ~ClearStep) =>
       <<disk.SyncState, disk'.SyncState>> \in SyncStateMoves]_vars

(* one daemon process whose store is never cleared: the delayed initial
   run and the cron ticks on the one DataStore *)
NextRuns ==
  \/ Tick
  \/ Exit
  \/ DaemonStart
  \/ DaemonStop
  \/ DaemonReturn
  \/ \E p \in DaemonProcs : PerformSyncStart(p)
  \/ \E p \in DaemonProcs : ChkMin(p)
  \/ \E p \in DaemonProcs : ChkHours(p)
  \/ \E p \in DaemonProcs : SetRunning(p)
  \/ \E p \in DaemonProcs : SetAttempt(p)
  \/ \E p \in DaemonProcs : InitData(p)
  \/ \E p \in DaemonProcs : Collect(p)
  \/ \E p \in DaemonProcs : Upload(p)
  \/ \E p \in DaemonProcs : SetSuccess(p)
  \/ \E p \in DaemonProcs : SetError(p)

SpecRuns == InitDaemon /\ [][NextRuns]_vars

---------------------------------------------------------------------------
(* the outcomes of a run that failed inside the pipeline *)
PipelineFailures == {"initDataFailed", "collectFailed", "syncFailed"}

(* p takes a step of its run in the daemon process *)
Steps(p) == daemonUp' /\ (proc'[p] # proc[p] \/ Returns(p))

(* C36: a daemon sync run that fails (init data, collection or upload)
   ends in ERROR and neither terminates the daemon nor removes or stops
   its schedule; a later scheduled run that finds ERROR is not refused,
   and when both throttles permit it runs the pipeline, the state moving
   from ERROR to RUNNING. *)
C36_FailedRunIsRetried ==
  [][\A p \in DaemonProcs :
       /\ (Returns(p) /\ result'.outcome \in PipelineFailures) =>
            /\ mem'["daemon"].SyncState = SyncStateError
            /\ daemonUp' /\ stopping' = stopping /\ live' = live
            /\ proc'["tick"].pc = "idle" \/ InProgress("tick")'
       /\ (proc[p].pc = "idle" /\ Steps(p) /\ Ds(p).SyncState = SyncStateError) =>
            proc'[p].pc = "chkMin"
       /\ (proc[p].pc = "chkMin" /\ Steps(p)
             /\ ~TooSoon(MinutesSinceLastAttempt(Ds(p), now), cfg.MinMinutesBetweenSyncs)) =>
            proc'[p].pc = "chkHours"
       /\ (proc[p].pc = "chkHours" /\ Steps(p)
             /\ ~RecentSuccess(HoursSinceLastSuccess(Ds(p), now), cfg.MinHoursSinceLastSync)) =>
            proc'[p].pc = "setRunning"
       /\ (proc[p].pc = "setRunning" /\ Steps(p)) =>
            mem'["daemon"].SyncState = SyncStateRunning]_vars

(* after a failed run, a scheduled run that found ERROR has passed both
   throttles and is about to set RUNNING *)
C36_Witness ==
  /\ proc["tick"].pc = "setRunning"
  /\ mem["daemon"].SyncState = SyncStateError
  /\ disk.SyncState = SyncStateError
  /\ disk.LastSyncAttemptedAt # <<>>
  /\ MinutesSinceLastAttempt(mem["daemon"], now) >= cfg.MinMinutesBetweenSyncs
  /\ cfg.MinMinutesBetweenSyncs > 0
  /\ proc["initial"].pc = "idle"
  /\ daemonUp /\ ~stopping

---------------------------------------------------------------------------
(* Termination of the process in the middle of a sync run, and restart on
   the same state file.  Runs do not overlap here: every refusal is due
   to the state file alone. *)
(* the process of owner o is killed while one of its runs is in progress:
   its memory and goroutines are gone, the file stays as last written *)
Kill(o) ==
  /\ Ready
  /\ \E p \in SyncProcs : Owner(p) = o /\ InProgress(p)
  /\ proc' = [p \in Procs |-> IF p \in SyncProcs /\ Owner(p) = o THEN IdleProc ELSE proc[p]]
  /\ mem' = [mem EXCEPT ![o] = ZeroDoc]
  /\ daemonUp' = IF o = "daemon" THEN FALSE ELSE daemonUp
  /\ stopping' = IF o = "daemon" THEN FALSE ELSE stopping
  /\ UNCHANGED <<live, overlap, cfg, now, disk, faults, tsConfig, result, call, sched, snap>>

InitCrash ==
  /\ AuxIdle
  /\ live = SyncProcs
  /\ overlap = FALSE
  /\ cfg \in [MinMinutesBetweenSyncs : MinMinutesChoices,
              MinHoursSinceLastSync : MinHoursChoices]
  /\ now = 0
  /\ disk \in RegisteredDocs
  /\ faults = MaxFaults
  /\ mem = [o \in {"cli", "daemon"} |-> ZeroDoc]
  /\ daemonUp = FALSE
  /\ proc = [p \in Procs |-> IdleProc]
  /\ tsConfig = TsZero
  /\ result = NoResult

NextCrash ==
  \/ Tick
  \/ Exit
  \/ RunSyncStart(FALSE)
  \/ DaemonStart
  \/ \E o \in {"cli", "daemon"} : Kill(o)
  \/ \E p \in DaemonProcs : PerformSyncStart(p)
  \/ \E p \in SyncProcs : ChkMin(p)
  \/ \E p \in SyncProcs : ChkHours(p)
  \/ NewOsqueryClient("cli")
  \/ \E p \in SyncProcs : SetRunning(p)
  \/ \E p \in SyncProcs : SetAttempt(p)
  \/ \E p \in SyncProcs : InitData(p)
  \/ \E p \in SyncProcs : Collect(p)
  \/ \E p \in SyncProcs : Upload(p)
  \/ \E p \in SyncProcs : SetSuccess(p)
  \/ \E p \in SyncProcs : SetError(p)

SpecCrash == InitCrash /\ [][NextCrash]_vars

(* C33: when the process is terminated at any point of a sync run and
   later restarted on the same state file, a non-forced trigger issued
   once both throttle windows have elapsed runs the pipeline: a RUNNING
   state left on disk never makes the daemon or a non-forced runSync
   refuse, since no run is in progress any more. *)
C33_StaleRunningIsNotRefused ==
  [][\A p \in SyncProcs :
       (Returns(p) /\ ~result'.forced /\ result'.outcome = "alreadyRunning") =>
          \E q \in SyncProcs \ {p} : InProgress(q)]_vars

(* once RUNNING is on disk with no run in progress, it stays there *)
StaleRunningStays ==
  [][(disk.SyncState = SyncStateRunning /\ \A p \in SyncProcs : ~InProgress(p)) =>
       disk'.SyncState = SyncStateRunning]_vars

---------------------------------------------------------------------------
(* p's run has issued GET /agentv2/init and GetInitData returned no error *)
InitDataFetched(p) ==
  /\ proc[p].pc = "init"
  /\ proc'[p].pc = "collect"
  /\ ~IsInitDataReady(Ds(p))

(* C35: after a sync run in which GET /agentv2/init returned successfully
   the init data is cached: IsInitDataReady is true in memory and after a
   reload from disk, so no later run issues the request again until the
   store is cleared; this holds for every successful response, including
   one whose list is empty. *)
C35_InitDataCachedAfterFetch ==
  [][\A p \in SyncProcs :
       InitDataFetched(p) =>
         /\ IsInitDataReady(mem'[Owner(p)])
         /\ IsInitDataReady(Unmarshal(disk'))]_vars

(* a response with a non-empty list is cached in memory and on disk *)
NonEmptyInitDataCached ==
  [][\A p \in SyncProcs :
       (InitDataFetched(p) /\ ListLen(mem'[Owner(p)].WinAvServicesMatchList) > 0) =>
         IsInitDataReady(Unmarshal(disk'))]_vars

---------------------------------------------------------------------------
(* The DataStore under concurrent goroutines of one process.  call holds
   each goroutine's store call: its position, the operation and the keys
   of an Update not yet applied.  snap holds ds.mu: the goroutine holding
   the write lock, the goroutines holding read locks, the goroutines
   registered as waiting, the copy Clear takes of the mutex, and whether
   the last save() succeeded.  mem["daemon"] is the DataStore, disk the
   file. *)
Goroutines == {"g1", "g2", "g3"}

(* the keys of the map api.Client.Sync passes to Update *)
SyncUpdateKeys == {"ComplianceData", "LastCheckedAt"}

UpdateValues ==
  [ComplianceData |-> Typed("SyncResponse", <<FormatRFC3339(1)>>),
   LastCheckedAt |-> Typed("string", FormatRFC3339(1))]

StoreCalls == {"Get", "SetSyncState", "Update", "Clear"}

IdleCall == [pc |-> "idle", op |-> "none", todo |-> {}, arg |-> ""]

(* a faulty variant: a getter that takes no lock *)
CanRLockAlways(m) == TRUE

(* RLock succeeds when no goroutine holds the write lock *)
CanRLock(m) == m.writer = "none"

(* Lock succeeds when no goroutine holds the lock *)
CanLock(m) == m.writer = "none" /\ m.readers = {}

Available(g) == IF call[g].op = "Get" THEN CanRLock(snap) ELSE CanLock(snap)

Acquired(g, m) ==
  IF call[g].op = "Get" THEN [m EXCEPT !.readers = @ \cup {g}, !.waiters = @ \ {g}]
  ELSE [m EXCEPT !.writer = g, !.waiters = @ \ {g}]

LockEnv ==
  <<live, overlap, cfg, now, daemonUp, proc, tsConfig, result, stopping, sched>>

(* a goroutine calls a store function *)
StoreCall(g, op, v) ==
  /\ call[g].pc = "idle"
  /\ call' = [call EXCEPT ![g] = [pc |-> "lock", op |-> op, arg |-> v,
                                  todo |-> IF op = "Update" THEN SyncUpdateKeys ELSE {}]]
  /\ UNCHANGED <<LockEnv, snap, mem, disk, faults>>

(* ds.mu.Lock() or ds.mu.RLock(): the lock is taken, or the goroutine
   registers in the mutex and sleeps *)
LockOrWait(g) ==
  /\ call[g].pc = "lock"
  /\ IF Available(g)
       THEN /\ snap' = Acquired(g, snap)
            /\ call' = [call EXCEPT ![g].pc = "held"]
       ELSE /\ snap' = [snap EXCEPT !.waiters = @ \cup {g}]
            /\ call' = [call EXCEPT ![g].pc = "waiting"]
  /\ UNCHANGED <<LockEnv, mem, disk, faults>>

(* an unlock wakes a goroutine that is registered in the mutex *)
Wake(g) ==
  /\ call[g].pc = "waiting"
  /\ g \in snap.waiters
  /\ Available(g)
  /\ snap' = Acquired(g, snap)
  /\ call' = [call EXCEPT ![g].pc = "held"]
  /\ UNCHANGED <<LockEnv, mem, disk, faults>>

(* a getter: the field is read and the deferred RUnlock runs *)
GetReturn(g) ==
  /\ call[g].pc = "held"
  /\ call[g].op = "Get"
  /\ snap' = [snap EXCEPT !.readers = @ \ {g}]
  /\ call' = [call EXCEPT ![g] = IdleCall]
  /\ UNCHANGED <<LockEnv, mem, disk, faults>>

(* SetSyncState: ds.SyncState = state *)
AssignSyncState(g) ==
  /\ call[g].pc = "held"
  /\ call[g].op = "SetSyncState"
  /\ mem' = [mem EXCEPT !["daemon"].SyncState = call[g].arg]
  /\ call' = [call EXCEPT ![g].pc = "save"]
  /\ UNCHANGED <<LockEnv, snap, disk, faults>>

(* Update: one iteration of the range over the map, in any order *)
ApplyKey(g, k) ==
  /\ call[g].pc = "held"
  /\ call[g].op = "Update"
  /\ k \in call[g].todo
  /\ mem' = [mem EXCEPT !["daemon"] = Update(@, [x \in {k} |-> UpdateValues[x]])]
  /\ call' = [call EXCEPT ![g].todo = @ \ {k},
                          ![g].pc = IF call[g].todo = {k} THEN "save" ELSE "held"]
  /\ UNCHANGED <<LockEnv, snap, disk, faults>>

(* Clear: mu := ds.mu copies the mutex while it is held *)
ClearCopy(g) ==
  /\ call[g].pc = "held"
  /\ call[g].op = "Clear"
  /\ snap' = [snap EXCEPT !.copy = snap.waiters]
  /\ call' = [call EXCEPT ![g].pc = "reset"]
  /\ UNCHANGED <<LockEnv, mem, disk, faults>>

(* Clear: the fields are reset and ds.mu = mu writes the copy back; a
   goroutine that registered in the mutex after the copy is no longer
   registered, and no unlock wakes it *)
ClearReset(g) ==
  /\ call[g].pc = "reset"
  /\ mem' = [mem EXCEPT !["daemon"] = Clear(@)]
  /\ snap' = [snap EXCEPT !.waiters = snap.copy, !.copy = {}]
  /\ call' = [call EXCEPT ![g].pc = "save"]
  /\ UNCHANGED <<LockEnv, disk, faults>>

(* return ds.save(), then the deferred Unlock *)
SaveReturn(g) ==
  /\ call[g].pc = "save"
  /\ \E ok \in WriteOutcomes :
       /\ StoreWrite("daemon", mem["daemon"], ok)
       /\ snap' = [snap EXCEPT !.writer = "none", !.saved = ok]
  /\ call' = [call EXCEPT ![g] = IdleCall]
  /\ UNCHANGED LockEnv

InitLock ==
  /\ live = {"initial", "tick"}
  /\ overlap = TRUE
  /\ cfg \in [MinMinutesBetweenSyncs : {0}, MinHoursSinceLastSync : {0}]
  /\ now = 0
  /\ disk \in RegisteredDocs
  /\ mem = [o \in {"cli", "daemon"} |-> IF o = "daemon" THEN Unmarshal(disk) ELSE ZeroDoc]
  /\ faults = 0
  /\ daemonUp = TRUE
  /\ proc = [p \in Procs |-> IdleProc]
  /\ tsConfig = TsZero
  /\ result = NoResult
  /\ stopping = FALSE
  /\ sched = NoSched
  /\ call = [g \in Goroutines |-> IdleCall]
  /\ snap = [writer |-> "none", readers |-> {}, waiters |-> {}, copy |-> {},
             saved |-> TRUE]

NextLock ==
  \/ \E g \in Goroutines :
       \/ StoreCall(g, "Get", "")
       \/ \E v \in {SyncStateRunning, SyncStateSuccess} : StoreCall(g, "SetSyncState", v)
       \/ StoreCall(g, "Update", "")
       \/ StoreCall(g, "Clear", "")
  \/ \E g \in Goroutines : LockOrWait(g)
  \/ \E g \in Goroutines : Wake(g)
  \/ \E g \in Goroutines : GetReturn(g)
  \/ \E g \in Goroutines : AssignSyncState(g)
  \/ \E g \in Goroutines, k \in SyncUpdateKeys : ApplyKey(g, k)
  \/ \E g \in Goroutines : ClearCopy(g)
  \/ \E g \in Goroutines : ClearReset(g)
  \/ \E g \in Goroutines : SaveReturn(g)

SpecLock == InitLock /\ [][NextLock]_vars

(* g is inside the lock hold of a mutator *)
Mutating(g) == call[g].op \notin {"none", "Get"} /\ call[g].pc \in {"held", "reset", "save"}

(* g is inside the lock hold of a getter *)
Reading(g) == call[g].op = "Get" /\ call[g].pc = "held"

(* C37: store calls are atomic with respect to each other under
   concurrent goroutines: no getter runs while a mutator (an Update with
   some of its fields applied, a Set call, Clear) is inside its lock hold,
   at most one mutator is inside at a time, and each mutator changes the
   memory and writes the file inside one lock hold, so that whenever no
   mutator is inside and the last save succeeded, the file content is the
   in-memory state. *)
C37_StoreCallsAreAtomic ==
  /\ \A g, h \in Goroutines : Mutating(g) => ~Reading(h)
  /\ \A g, h \in Goroutines : Mutating(g) /\ Mutating(h) => g = h
  /\ ((\A g \in Goroutines : ~Mutating(g)) /\ snap.saved) =>
        disk = Marshal(mem["daemon"])

(* a getter and a second mutator are kept out while an Update has applied
   one of its two fields *)
C37_Witness ==
  \E g, h, i \in Goroutines :
    /\ call[g].op = "Update" /\ Cardinality(call[g].todo) = 1
    /\ call[h].op = "Get" /\ call[h].pc = "waiting"
    /\ call[i].op = "SetSyncState" /\ call[i].pc = "waiting"

(* a goroutine that registered during Clear's copy sleeps with no one to
   wake it *)
WaiterLostByClear ==
  \E g \in Goroutines : call[g].pc = "waiting" /\ g \notin snap.waiters /\ snap.writer = "none"

====
